---- MODULE Spec2Model ----
(***************************************************************************)
(* Model of the reply pipeline of luna_chat_v1:                            *)
(*   LLMClient._parse_llm_content / generate_reply  (llm_client.py)        *)
(*   ImageEngine._normalize_tags, build_prompts     (images/engine.py)     *)
(*   decide_image_request                           (images/gate.py)       *)
(*   pick_loras, lora_prompt_suffix, select_loras   (lora_mapping.py)      *)
(*   ChatEngine.process_user_message                (chat/engine.py)       *)
(*   MainWindow, LLMWorker, SDWorker                (ui/main_window.py)    *)
(*                                                                         *)
(* A text is a sequence of lexical chunks ("tokens").  Every token stands  *)
(* for a fixed run of characters of the raw model output:                  *)
(*   " "         one whitespace character                                  *)
(*   "Ciao"      a prose word                                              *)
(*   "42"        the digits 42                                             *)
(*   "{" "}" "[" "]"   the four bracket characters                         *)
(*   "qs"        the list items      "a","A "                              *)
(*   "kvFull"    the object members  "reply_it":"Ciao", "tags_en":["a",    *)
(*               " a","A","b"], "visual_en":"Ciao",                        *)
(*               "follow_up_action":"Ciao"                                 *)
(*   "kvPartial" the object members  "reply_it":null, "tags_en":"a",       *)
(*               "follow_up_action":null          (visual_en missing)      *)
(*   "kvBool"    the object members  "reply_it":true                       *)
(*   "tags_en:" "visual_en:" "follow_up_action:" "reply_it:" "TAGS_EN:"    *)
(*               the label texts, colon included                           *)
(*   "foto" "FOTO" "epic" "fammi" "vedere" "ecco" "Ecco" "a" "te" ...      *)
(*               the words of a user message or of a dialogue line         *)
(*   "request_image" "REQUEST_IMAGE"   the follow-up action word           *)
(*   "detail" "details" "Details" "sharp" "hand" "realism" "pony"          *)
(*               the words of a tag or of a catalog keyword                *)
(*   "zzz"       a word of a tag that no catalog keyword is in             *)
(*   "[Mi" "scuso," ... "Riprova.]"   the words of the apology reply       *)
(*   "sd_1.png"  the path of a written image file                          *)
(*   "score_9" ... "award-winning photo"   the quality tags                *)
(*   ","  "1girl"    a comma and a word of a base prompt                   *)
(* A tag string is a text over the characters "a", "A", "b" and " ".       *)
(***************************************************************************)
EXTENDS Integers, Sequences, FiniteSets, TLC

VARIABLES content, pc, stage, obj, reply, tagsIn, idx, out, seen,
          calls, firstOut, user_text, decision,
          LORAS, CATEGORY_LIMITS, pick_tags, pick_visual, sdxl, max_total,
          candidates, ci, fi, picked, used_per_cat, runs, firstPicked,
          character, positive_parts, prompts,
          suffix, selected,
          busy, last_user_text, running, signals, bubbles, history, turn, ignored, emits

\* The variables by component, last component first: each component's actions
\* leave the variables of the components after it alone.
afterCalls == <<busy, last_user_text, running, signals, bubbles, history, turn, ignored, emits>>

afterPrompt == <<suffix, selected, afterCalls>>

afterSel == <<character, positive_parts, prompts, afterPrompt>>

selIn == <<LORAS, CATEGORY_LIMITS, pick_tags, pick_visual, sdxl, max_total>>

afterGate ==
    <<selIn, candidates, ci, fi, picked, used_per_cat, runs, firstPicked, afterSel>>

afterNorm == <<user_text, decision, afterGate>>

\* The variables of the components that follow the parser and the
\* normalizer loop; the actions of those two leave them alone.
laterVars == <<calls, firstOut, afterNorm>>

vars == <<content, pc, stage, obj, reply, tagsIn, idx, out, seen, laterVars>>

\* The components before they are entered.
AfterCallsIdle ==
    /\ busy = FALSE
    /\ last_user_text = <<>>
    /\ running = <<>>
    /\ signals = <<>>
    /\ bubbles = <<>>
    /\ history = <<>>
    /\ turn = 0
    /\ ignored = 0
    /\ emits = <<>>

AfterPromptIdle ==
    /\ suffix = <<>>
    /\ selected = <<>>
    /\ AfterCallsIdle

AfterSelIdle ==
    /\ character = [known |-> FALSE, base_prompt |-> <<>>, negative_prompt |-> <<>>]
    /\ positive_parts = <<>>
    /\ prompts = [positive |-> <<>>, negative |-> <<>>]
    /\ AfterPromptIdle

SelIdle ==
    /\ LORAS = <<>>
    /\ CATEGORY_LIMITS = <<>>
    /\ pick_tags = <<>>
    /\ pick_visual = <<>>
    /\ sdxl = TRUE
    /\ max_total = 0
    /\ candidates = <<>>
    /\ ci = 0
    /\ fi = 0
    /\ picked = <<>>
    /\ used_per_cat = <<>>
    /\ runs = 1
    /\ firstPicked = <<>>

AfterGateIdle == SelIdle /\ AfterSelIdle

GateIdle ==
    /\ user_text = <<>>
    /\ decision = [will_generate |-> FALSE, reason |-> "undecided"]

AfterNormIdle == GateIdle /\ AfterGateIdle

LaterIdle == calls = 1 /\ firstOut = <<>> /\ AfterNormIdle

(***************************************************************************)
(* Bounds of the model.                                                    *)
(***************************************************************************)
MaxLen == 3
MaxNoise == 1
MaxTags == 3
MaxWords == 3
MaxSelTags == 2
MaxCap == 3
MaxBase == 4

(***************************************************************************)
(* Generic helpers on sequences.                                           *)
(***************************************************************************)
SeqsUpTo(S, n) == UNION {[1..k -> S] : k \in 0..n}

MinOf(S) == CHOOSE x \in S : \A y \in S : x <= y

MaxOf(S) == CHOOSE x \in S : \A y \in S : x >= y

(***************************************************************************)
(* Characters and tokens.                                                  *)
(***************************************************************************)
WS == " "

KvTokens == {"kvFull", "kvPartial", "kvBool"}

LabelTokens == {"tags_en:", "visual_en:", "follow_up_action:", "reply_it:", "TAGS_EN:"}

WordTokens == {"Ciao", "42"}

\* str.lower() on one token / character.
LowerTok(t) ==
    CASE t = "TAGS_EN:" -> "tags_en:"
      [] t = "A" -> "a"
      [] t = "FOTO" -> "foto"
      [] t = "Ecco" -> "ecco"
      [] t = "REQUEST_IMAGE" -> "request_image"
      [] t = "Details" -> "details"
      [] t = "[Mi" -> "[mi"
      [] t = "Riprova.]" -> "riprova.]"
      [] OTHER -> t

\* str.lower()
Lower(s) == [i \in 1..Len(s) |-> LowerTok(s[i])]

IsWs(t) == t = WS

NotWs(t) == t # WS

\* str.strip(): drop leading and trailing whitespace.
Strip(s) ==
    LET keep == {i \in 1..Len(s) : NotWs(s[i])}
    IN  IF keep = {} THEN <<>> ELSE SubSeq(s, MinOf(keep), MaxOf(keep))

\* str.find / `in`: first position of token t in s, 0 when absent.
Find(s, t) ==
    LET hit == {i \in 1..Len(s) : s[i] = t}
    IN  IF hit = {} THEN 0 ELSE MinOf(hit)

\* str.rfind
RFind(s, t) ==
    LET hit == {i \in 1..Len(s) : s[i] = t}
    IN  IF hit = {} THEN 0 ELSE MaxOf(hit)

\* s.split(t)[0]: the text before the first (case-sensitive) occurrence of t.
SplitHead(s, t) == IF Find(s, t) = 0 THEN s ELSE SubSeq(s, 1, Find(s, t) - 1)

\* First position >= i of s that is not whitespace (Len(s)+1 when none): \s*
SkipWs(s, i) ==
    LET rest == {j \in i..Len(s) : s[j] # WS}
    IN  IF rest = {} THEN Len(s) + 1 ELSE MinOf(rest)

(***************************************************************************)
(* Python values produced by json.loads.                                   *)
(***************************************************************************)
PyNone == [k |-> "none"]

PyMissing == [k |-> "missing"]

PyTrue == [k |-> "true"]

PyNum(digits) == [k |-> "num", v |-> digits]

PyStr(text) == [k |-> "str", v |-> text]

PyList(items) == [k |-> "list", v |-> items]

PyDict(fields) == [k |-> "dict", v |-> fields]

Fields(r, t, v, f) == [reply_it |-> r, tags_en |-> t, visual_en |-> v, follow_up_action |-> f]

EmptyFields == Fields(PyMissing, PyMissing, PyMissing, PyMissing)

\* The members each object chunk decodes to.
KvFields(t) ==
    CASE t = "kvFull" ->
            Fields(PyStr(<<"Ciao">>),
                   PyList(<<PyStr(<<"a">>), PyStr(<<" ", "a">>), PyStr(<<"A">>), PyStr(<<"b">>)>>),
                   PyStr(<<"Ciao">>),
                   PyStr(<<"Ciao">>))
      [] t = "kvPartial" ->
            Fields(PyNone, PyStr(<<"a">>), PyMissing, PyNone)
      [] OTHER ->
            Fields(PyTrue, PyMissing, PyMissing, PyMissing)

\* The items the list chunk decodes to.
QsItems == <<PyStr(<<"a">>), PyStr(<<"A", " ">>)>>

\* Tokens whose characters include a closing square bracket.
ContainsRSQ(t) == t \in {"]", "kvFull"}

(***************************************************************************)
(* json.loads on a text.                                                   *)
(***************************************************************************)
JsonFail == [ok |-> FALSE, val |-> PyNone]

JsonOk(v) == [ok |-> TRUE, val |-> v]

\* Last position of the run of adjacent "42" tokens that starts at i.
RunEnd(s, i) == MaxOf({j \in i..Len(s) : \A m \in i..j : s[m] = "42"})

\* Position i starts a JSON lexeme: not whitespace, not inside a digit run.
LexStart(s, i) == s[i] # WS /\ ~(s[i] = "42" /\ i > 1 /\ s[i - 1] = "42")

LexAt(s, i) == [t |-> s[i], v |-> IF s[i] = "42" THEN SubSeq(s, i, RunEnd(s, i)) ELSE <<>>]

\* The JSON lexemes of a text: whitespace between them is insignificant and
\* adjacent digits make one number.
Lex(s) ==
    LET starts == SelectSeq([i \in 1..Len(s) |-> i], LAMBDA i : LexStart(s, i))
    IN  [n \in 1..Len(starts) |-> LexAt(s, starts[n])]

RECURSIVE DecodeLex(_)
\* One JSON value spanning all of the lexemes L.
DecodeLex(L) ==
    IF Len(L) = 0 THEN JsonFail
    ELSE IF Len(L) = 1 THEN
        IF L[1].t = "42" THEN JsonOk(PyNum(L[1].v)) ELSE JsonFail
    ELSE
        LET inner == SubSeq(L, 2, Len(L) - 1)
        IN  IF L[1].t = "[" /\ L[Len(L)].t = "]" THEN
                IF inner = <<>> THEN JsonOk(PyList(<<>>))
                ELSE IF Len(inner) = 1 /\ inner[1].t = "qs" THEN JsonOk(PyList(QsItems))
                ELSE LET r == DecodeLex(inner)
                     IN  IF r.ok THEN JsonOk(PyList(<<r.val>>)) ELSE JsonFail
            ELSE IF L[1].t = "{" /\ L[Len(L)].t = "}" THEN
                IF inner = <<>> THEN JsonOk(PyDict(EmptyFields))
                ELSE IF Len(inner) = 1 /\ inner[1].t \in KvTokens
                     THEN JsonOk(PyDict(KvFields(inner[1].t)))
                ELSE JsonFail
            ELSE JsonFail

JsonLoads(s) == DecodeLex(Lex(s))

(***************************************************************************)
(* Python truthiness and str().                                            *)
(***************************************************************************)
Truthy(v) ==
    CASE v.k = "none" -> FALSE
      [] v.k = "missing" -> FALSE
      [] v.k = "str" -> v.v # <<>>
      [] v.k = "list" -> v.v # <<>>
      [] v.k = "dict" -> v.v # EmptyFields
      [] OTHER -> TRUE

\* str(v); the repr of a container is abstracted to its brackets.
StrOf(v) ==
    CASE v.k = "str" -> v.v
      [] v.k = "num" -> v.v
      [] v.k = "true" -> <<"True">>
      [] v.k = "list" -> IF v.v = <<>> THEN <<"[", "]">> ELSE <<"[", "..", "]">>
      [] v.k = "dict" -> IF v.v = EmptyFields THEN <<"{", "}">> ELSE <<"{", "..", "}">>
      [] OTHER -> <<"None">>

(***************************************************************************)
(* LLMClient._parse_llm_content: the four stages as pure functions of the  *)
(* raw content.  Each gives [ok, val]: whether the stage returns, and the  *)
(* value it returns.                                                       *)
(***************************************************************************)
\* Stage 1: json.loads(content).
Stage1Result(c) == JsonLoads(c)

\* Stage 2 with the slice content[start : end], which leaves the last brace out.
Stage2Result_SliceOffByOne(c) ==
    LET start == Find(c, "{")
        end == RFind(c, "}")
    IN  IF start # 0 /\ end # 0 /\ end > start
        THEN JsonLoads(SubSeq(c, start, end - 1))
        ELSE JsonFail

\* Stage 2: json.loads(content[start : end + 1]) when both braces exist.
Stage2Result(c) ==
    LET start == Find(c, "{")
        end == RFind(c, "}")
    IN  IF start # 0 /\ end # 0 /\ end > start
        THEN JsonLoads(SubSeq(c, start, end))
        ELSE JsonFail

\* Positions of a label, matched case-insensitively (re.IGNORECASE).
LabelPositions(c, label) == {i \in 1..Len(c) : LowerTok(c[i]) = label}

\* r"^(.*?)tags_en:" -> group(1).strip(), else content.strip()
ReplyBeforeTags(c) ==
    LET hit == LabelPositions(c, "tags_en:")
    IN  IF hit = {} THEN Strip(c) ELSE Strip(SubSeq(c, 1, MinOf(hit) - 1))

\* if label.lower() in reply_it.lower(): reply_it = reply_it.split(label)[0].strip()
CutAtLabel(r, label) ==
    IF Find(Lower(r), label) # 0 THEN Strip(SplitHead(r, label)) ELSE r

CleanReply(r) == CutAtLabel(CutAtLabel(r, "visual_en:"), "follow_up_action:")

\* r"tags_en:\s*(\[.*?\])": the label, optional whitespace, "[", then lazily
\* up to the first "]" character.  [found, text, whole]: whole is FALSE when
\* that first "]" lies inside a chunk, so the group ends in mid-chunk.
TagsCaptureAt(c, i) ==
    LET j == SkipWs(c, i + 1)
        close == {m \in (j + 1)..Len(c) : ContainsRSQ(c[m])}
    IN  IF j <= Len(c) /\ c[j] = "[" /\ close # {}
        THEN [found |-> TRUE, text |-> SubSeq(c, j, MinOf(close)), whole |-> c[MinOf(close)] = "]"]
        ELSE [found |-> FALSE, text |-> <<>>, whole |-> FALSE]

TagsCapture(c) ==
    LET hit == {i \in LabelPositions(c, "tags_en:") : TagsCaptureAt(c, i).found}
    IN  IF hit = {} THEN [found |-> FALSE, text |-> <<>>, whole |-> FALSE]
        ELSE TagsCaptureAt(c, MinOf(hit))

\* json.loads(tags_en_match.group(1)) if tags_en_match else []
TagsValue(c) ==
    LET m == TagsCapture(c)
    IN  IF ~m.found THEN JsonOk(PyList(<<>>))
        ELSE IF ~m.whole THEN JsonFail
        ELSE JsonLoads(m.text)

\* r"visual_en:\s*(.*?)(?=\s*follow_up_action:|$)" -> group(1).strip(), else ""
VisualValue(c) ==
    LET hit == LabelPositions(c, "visual_en:")
    IN  IF hit = {} THEN <<>>
        ELSE LET i == MinOf(hit)
                 stop == {f \in LabelPositions(c, "follow_up_action:") : f > i}
             IN  IF stop = {} THEN Strip(SubSeq(c, i + 1, Len(c)))
                 ELSE Strip(SubSeq(c, i + 1, MinOf(stop) - 1))

\* A token whose first character is a word character (\w).
StartsWord(t) == t \in WordTokens \cup LabelTokens

\* The word characters a label token starts with: the label without its colon.
Stem(t) ==
    CASE t = "tags_en:" -> "tags_en"
      [] t = "visual_en:" -> "visual_en"
      [] t = "follow_up_action:" -> "follow_up_action"
      [] t = "reply_it:" -> "reply_it"
      [] OTHER -> "TAGS_EN"

\* (\w+) from position j: the adjacent word tokens, closed by the stem of a
\* label when one follows without whitespace.
WordRun(c, j) ==
    LET n == MaxOf({m \in (j - 1)..Len(c) : \A x \in j..m : c[x] \in WordTokens})
    IN  IF n < Len(c) /\ c[n + 1] \in LabelTokens
        THEN Append(SubSeq(c, j, n), Stem(c[n + 1]))
        ELSE SubSeq(c, j, n)

\* r"follow_up_action:\s*(\w+)" -> group(1).strip(), else None
FollowUpValue(c) ==
    LET hit == {i \in LabelPositions(c, "follow_up_action:") :
                    SkipWs(c, i + 1) <= Len(c) /\ StartsWord(c[SkipWs(c, i + 1)])}
    IN  IF hit = {} THEN PyNone
        ELSE PyStr(WordRun(c, SkipWs(c, MinOf(hit) + 1)))

\* Stage 3: the regex recovery; returns only `if tags_en or visual_en`, and
\* any exception (the json.loads of the tags group) abandons the stage.
Stage3Result(c) ==
    LET tags == TagsValue(c)
        visual == VisualValue(c)
    IN  IF ~tags.ok THEN JsonFail
        ELSE IF Truthy(tags.val) \/ visual # <<>>
        THEN JsonOk(PyDict(Fields(PyStr(CleanReply(ReplyBeforeTags(c))), tags.val,
                                  PyStr(visual), FollowUpValue(c))))
        ELSE JsonFail

\* Stage 4: content.strip().split("tags_en:")[0].strip()
Stage4Result(c) ==
    JsonOk(PyDict(Fields(PyStr(Strip(SplitHead(Strip(c), "tags_en:"))),
                         PyList(<<>>), PyStr(<<>>), PyNone)))

(***************************************************************************)
(* LLMClient.generate_reply, lines 248-261 and 282-288: field extraction   *)
(* and the LLMReply constructor.                                           *)
(***************************************************************************)
OrElse(v, default) == IF Truthy(v) THEN v ELSE default

NonBlank(t) == Strip(t) # <<>>

\* tags_en of the reply from obj.get("tags_en") or []
ExtractTags(raw) ==
    IF raw.k = "list"
    THEN SelectSeq([i \in 1..Len(raw.v) |-> StrOf(raw.v[i])], NonBlank)
    ELSE IF NonBlank(StrOf(raw)) THEN <<StrOf(raw)>> ELSE <<>>

\* obj.get raises AttributeError unless obj is a dict; LLMReply(reply_it=...)
\* raises a validation error unless reply_it is a str.
ExtractRaises(o) ==
    IF o.k # "dict" THEN TRUE ELSE OrElse(o.v.reply_it, PyStr(<<>>)).k # "str"

ExtractReply(o) ==
    [reply_it |-> OrElse(o.v.reply_it, PyStr(<<>>)).v,
     tags_en |-> ExtractTags(OrElse(o.v.tags_en, PyList(<<>>))),
     visual_en |-> StrOf(OrElse(o.v.visual_en, PyStr(<<>>))),
     follow_up_action |->
        IF o.v.follow_up_action.k \in {"none", "missing"} THEN PyNone
        ELSE PyStr(StrOf(o.v.follow_up_action))]

NoReply == [reply_it |-> <<>>, tags_en |-> <<>>, visual_en |-> <<>>, follow_up_action |-> PyNone]

(***************************************************************************)
(* ImageEngine._normalize_tags: helpers of the loop body.                  *)
(***************************************************************************)
\* key = clean, without lower(): duplicates are then told apart by case.
NormKey_CaseSensitive(clean) == clean

\* key = clean.lower()
NormKey(clean) == Lower(clean)

(***************************************************************************)
(* Inputs.                                                                 *)
(***************************************************************************)
Alphabet ==
    {" ", "Ciao", "42", "{", "}", "[", "]", "qs", "kvFull", "kvPartial", "kvBool",
     "tags_en:", "visual_en:", "follow_up_action:"}

\* Every text of at most MaxLen tokens.
ShortInputs == SeqsUpTo(Alphabet, MaxLen)

\* JSON objects, wrapped in noise of at most MaxNoise tokens on each side.
Records == {<<"{", "}">>} \cup {<<"{", k, "}">> : k \in KvTokens}

NoiseAlphabet == {" ", "Ciao", "{", "}", "[", "]"}

Noise == SeqsUpTo(NoiseAlphabet, MaxNoise)

WrappedRecords == {l \o r \o t : l \in Noise, r \in Records, t \in Noise}

\* Labelled blocks: an optional dialogue part, then the tags, visual and
\* follow-up parts, tags and visual in either order.
DialogueParts == {<<>>, <<"Ciao", " ">>, <<"reply_it:", " ", "Ciao", " ">>}

TagsParts ==
    {<<>>, <<"tags_en:", " ">>, <<"tags_en:", " ", "[", "]", " ">>,
     <<"tags_en:", " ", "[", "qs", "]", " ">>, <<"tags_en:", " ", "Ciao", " ">>,
     <<"tags_en:", " ", "[", "Ciao", "]", " ">>, <<"TAGS_EN:", " ", "[", "qs", "]", " ">>}

VisualParts == {<<>>, <<"visual_en:", " ">>, <<"visual_en:", " ", "Ciao", " ">>}

FollowUpParts == {<<>>, <<"follow_up_action:", " ", "Ciao">>}

LabeledBlocks ==
    {d \o t \o v \o f : d \in DialogueParts, t \in TagsParts, v \in VisualParts, f \in FollowUpParts}
    \cup
    {d \o v \o t \o f : d \in DialogueParts, t \in TagsParts, v \in VisualParts, f \in FollowUpParts}

Inputs == ShortInputs \cup WrappedRecords \cup LabeledBlocks

\* Tag strings handed to _normalize_tags.
TagStrings ==
    {<<>>, <<" ">>, <<"a">>, <<"A">>, <<" ", "a">>, <<"a", " ">>, <<"b">>, <<"a", " ", "b">>}

TagLists == SeqsUpTo(TagStrings, MaxTags)

(***************************************************************************)
(* The parser as a state machine: generate_reply from the point where the  *)
(* raw content has been received.                                          *)
(***************************************************************************)
NormIdle == tagsIn = <<>> /\ idx = 0 /\ out = <<>> /\ seen = {}

Init ==
    /\ content \in Inputs
    /\ pc = "stage1"
    /\ stage = 0
    /\ obj = PyNone
    /\ reply = NoReply
    /\ NormIdle
    /\ LaterIdle

\* The stage at pc returned r: leave _parse_llm_content with it.
Return(n, r) ==
    /\ obj' = r.val
    /\ stage' = n
    /\ pc' = "extract"
    /\ UNCHANGED <<content, reply, tagsIn, idx, out, seen>>
    /\ UNCHANGED laterVars

\* The stage at pc passed: go on with the next one.
Pass(next) ==
    /\ pc' = next
    /\ UNCHANGED <<content, stage, obj, reply, tagsIn, idx, out, seen>>
    /\ UNCHANGED laterVars

Stage1 ==
    /\ pc = "stage1"
    /\ IF Stage1Result(content).ok THEN Return(1, Stage1Result(content)) ELSE Pass("stage2")

\* Stage 2 falling through to the final fallback when its decode fails.
Stage2_SkipsStage3 ==
    /\ pc = "stage2"
    /\ IF Stage2Result(content).ok THEN Return(2, Stage2Result(content)) ELSE Pass("stage4")

Stage2 ==
    /\ pc = "stage2"
    /\ IF Stage2Result(content).ok THEN Return(2, Stage2Result(content)) ELSE Pass("stage3")

Stage3 ==
    /\ pc = "stage3"
    /\ IF Stage3Result(content).ok THEN Return(3, Stage3Result(content)) ELSE Pass("stage4")

Stage4 ==
    /\ pc = "stage4"
    /\ Return(4, Stage4Result(content))

\* Lines 250-261 and 282-288 succeed: the LLMReply is returned.
ExtractOk ==
    /\ pc = "extract"
    /\ ~ExtractRaises(obj)
    /\ reply' = ExtractReply(obj)
    /\ pc' = "returned"
    /\ UNCHANGED <<content, stage, obj, tagsIn, idx, out, seen>>
    /\ UNCHANGED laterVars

\* Lines 250-261 or the LLMReply constructor raise: no reply is returned.
ExtractFail ==
    /\ pc = "extract"
    /\ ExtractRaises(obj)
    /\ pc' = "raised"
    /\ UNCHANGED <<content, stage, obj, reply, tagsIn, idx, out, seen>>
    /\ UNCHANGED laterVars

Next == Stage1 \/ Stage2 \/ Stage3 \/ Stage4 \/ ExtractOk \/ ExtractFail

Spec == Init /\ [][Next]_vars

(***************************************************************************)
(* ImageEngine._normalize_tags as a loop over tagsIn, one element a step.  *)
(***************************************************************************)
InitNorm ==
    /\ content = <<>>
    /\ pc = "norm_loop"
    /\ stage = 0
    /\ obj = PyNone
    /\ reply = NoReply
    /\ tagsIn \in TagLists
    /\ idx = 1
    /\ out = <<>>
    /\ seen = {}
    /\ LaterIdle

InLoop == pc = "norm_loop" /\ idx <= Len(tagsIn)

Continue ==
    /\ idx' = idx + 1
    /\ UNCHANGED <<content, pc, stage, obj, reply, tagsIn, out, seen>>
    /\ UNCHANGED laterVars

\* if not t: continue
NormSkipEmpty ==
    /\ InLoop
    /\ tagsIn[idx] = <<>>
    /\ Continue

\* clean = t.strip(); if not clean: continue
NormSkipBlank ==
    /\ InLoop
    /\ tagsIn[idx] # <<>>
    /\ Strip(tagsIn[idx]) = <<>>
    /\ Continue

\* key = clean.lower(); if key in seen: continue
NormSkipSeen ==
    /\ InLoop
    /\ Strip(tagsIn[idx]) # <<>>
    /\ NormKey(Strip(tagsIn[idx])) \in seen
    /\ Continue

\* A call that records the key of the untrimmed element.
NormKeep_SeenRaw ==
    /\ InLoop
    /\ Strip(tagsIn[idx]) # <<>>
    /\ NormKey(Strip(tagsIn[idx])) \notin seen
    /\ seen' = seen \cup {Lower(tagsIn[idx])}
    /\ out' = Append(out, Strip(tagsIn[idx]))
    /\ idx' = idx + 1
    /\ UNCHANGED <<content, pc, stage, obj, reply, tagsIn>>
    /\ UNCHANGED laterVars

\* seen.add(key); out.append(clean)
NormKeep ==
    /\ InLoop
    /\ Strip(tagsIn[idx]) # <<>>
    /\ NormKey(Strip(tagsIn[idx])) \notin seen
    /\ seen' = seen \cup {NormKey(Strip(tagsIn[idx]))}
    /\ out' = Append(out, Strip(tagsIn[idx]))
    /\ idx' = idx + 1
    /\ UNCHANGED <<content, pc, stage, obj, reply, tagsIn>>
    /\ UNCHANGED laterVars

\* return out
NormReturn ==
    /\ pc = "norm_loop"
    /\ idx > Len(tagsIn)
    /\ pc' = "norm_done"
    /\ UNCHANGED <<content, stage, obj, reply, tagsIn, idx, out, seen>>
    /\ UNCHANGED laterVars

NextNorm == NormSkipEmpty \/ NormSkipBlank \/ NormSkipSeen \/ NormKeep \/ NormReturn

SpecNorm == InitNorm /\ [][NextNorm]_vars

(***************************************************************************)
(* _normalize_tags called a second time, on the list the first call        *)
(* returned: out, seen and the loop position are locals of the call and    *)
(* start afresh.                                                           *)
(***************************************************************************)
NormAgain ==
    /\ pc = "norm_done"
    /\ calls = 1
    /\ calls' = 2
    /\ firstOut' = out
    /\ tagsIn' = out
    /\ idx' = 1
    /\ out' = <<>>
    /\ seen' = {}
    /\ pc' = "norm_loop"
    /\ UNCHANGED <<content, stage, obj, reply>>
    /\ UNCHANGED afterNorm

NextNormTwice == NextNorm \/ NormAgain

SpecNormTwice == InitNorm /\ [][NextNormTwice]_vars

(***************************************************************************)
(* app/images/gate.py: decide_image_request.                               *)
(***************************************************************************)
USER_TRIGGER_WORDS ==
    {<<"immagine">>, <<"immagini">>, <<"foto">>, <<"fotografia">>, <<"picture">>, <<"image">>,
     <<"pic">>, <<"photo">>, <<"scatta">>, <<"mostrami">>, <<"fammi", " ", "vedere">>,
     <<"mandami">>, <<"mandane">>}

CHARACTER_PROMISE_WORDS ==
    {<<"te", " ", "la", " ", "mando">>, <<"te", " ", "la", " ", "invio">>,
     <<"ti", " ", "mando", " ", "una", " ", "foto">>, <<"ti", " ", "mando", " ", "la", " ", "foto">>,
     <<"ecco", " ", "una", " ", "foto">>, <<"te", " ", "la", " ", "mostro">>,
     <<"guarda", " ", "questa">>, <<"ecco", " ", "a", " ", "te">>, <<"ecco", " ", "per", " ", "te">>,
     <<"ti", " ", "invio">>}

\* The words of the model that have another word of the model inside them:
\* <<t, w>> stands for  w in t.
InWord ==
    {<<"epic", "pic">>, <<"picture", "pic">>, <<"fotografia", "foto">>, <<"details", "detail">>}

\* word in lower   (substring test of a phrase in a text)
Occurs(phrase, text) ==
    \E i \in 1..(Len(text) - Len(phrase) + 1) :
        \A j \in 1..Len(phrase) :
            text[i + j - 1] = phrase[j] \/ <<text[i + j - 1], phrase[j]>> \in InWord

user_asks_for_image(text) ==
    IF text = <<>> THEN FALSE ELSE \E word \in USER_TRIGGER_WORDS : Occurs(word, Lower(text))

character_promises_image(text) ==
    IF text = <<>> THEN FALSE ELSE \E phrase \in CHARACTER_PROMISE_WORDS : Occurs(phrase, Lower(text))

\* A follow-up test that compares the field as it stands.
followup_requests_image_Exact(r) ==
    IF r.follow_up_action = PyNone THEN FALSE
    ELSE IF r.follow_up_action.v = <<>> THEN FALSE
    ELSE r.follow_up_action.v = <<"request_image">>

followup_requests_image(r) ==
    IF r.follow_up_action = PyNone THEN FALSE
    ELSE IF r.follow_up_action.v = <<>> THEN FALSE
    ELSE Lower(Strip(r.follow_up_action.v)) = <<"request_image">>

ImageDecision(w, r) == [will_generate |-> w, reason |-> r]

\* The messages a user sends and the replies the parser hands to the gate.
UserAlphabet == {"foto", "FOTO", "epic", "fammi", "vedere", " "}

UserTexts == SeqsUpTo(UserAlphabet, MaxWords)

DialogueTexts ==
    {<<"Ciao">>, <<"Ecco", " ", "a", " ", "te">>, <<"ecco", " ", "te">>,
     <<"Ciao", " ", "ti", " ", "invio">>}

FollowUps ==
    {PyNone, PyStr(<<>>), PyStr(<<"request_image">>), PyStr(<<" ", "REQUEST_IMAGE", " ">>),
     PyStr(<<"request_image", " ", "Ciao">>)}

\* tags_en and visual_en of a reply: neither, a description alone, both.
GateVisuals == {<<<<>>, <<>>>>, <<<<>>, <<"Ciao">>>>, <<<<<<"a">>, <<"b">>>>, <<"Ciao">>>>}

GateReplies ==
    {[reply_it |-> d, tags_en |-> tv[1], visual_en |-> tv[2], follow_up_action |-> f] :
        d \in DialogueTexts, tv \in GateVisuals, f \in FollowUps}

InitGate ==
    /\ content = <<>>
    /\ pc = "gate"
    /\ stage = 0
    /\ obj = PyNone
    /\ reply \in GateReplies
    /\ NormIdle
    /\ calls = 1
    /\ firstOut = <<>>
    /\ user_text \in UserTexts
    /\ decision = [will_generate |-> FALSE, reason |-> "undecided"]
    /\ AfterGateIdle

GateReturn(d) ==
    /\ pc = "gate"
    /\ decision' = d
    /\ pc' = "gate_done"
    /\ UNCHANGED <<content, stage, obj, reply, tagsIn, idx, out, seen, calls, firstOut, user_text>>
    /\ UNCHANGED afterGate

\* if is_user_request: return
GateUserRequest ==
    /\ user_asks_for_image(user_text)
    /\ GateReturn(ImageDecision(TRUE, "user_request"))

\* The promise test placed before the user test.
GateCharacterPromise_First ==
    /\ character_promises_image(reply.reply_it)
    /\ GateReturn(ImageDecision(TRUE, "character_promise"))

\* if is_character_promise: return
GateCharacterPromise ==
    /\ ~user_asks_for_image(user_text)
    /\ character_promises_image(reply.reply_it)
    /\ GateReturn(ImageDecision(TRUE, "character_promise"))

\* A gate that also lets a visual description with tags through.
GateFollowUp_OrVisual ==
    /\ ~user_asks_for_image(user_text)
    /\ ~character_promises_image(reply.reply_it)
    /\ followup_requests_image(reply) \/ (reply.visual_en # <<>> /\ reply.tags_en # <<>>)
    /\ GateReturn(ImageDecision(TRUE, "follow_up_action"))

\* if is_followup_request: return
GateFollowUp ==
    /\ ~user_asks_for_image(user_text)
    /\ ~character_promises_image(reply.reply_it)
    /\ followup_requests_image(reply)
    /\ GateReturn(ImageDecision(TRUE, "follow_up_action"))

\* A gate that names no_trigger and generates all the same.
GateNoTrigger_Generates ==
    /\ ~user_asks_for_image(user_text)
    /\ ~character_promises_image(reply.reply_it)
    /\ ~followup_requests_image(reply)
    /\ GateReturn(ImageDecision(TRUE, "no_trigger"))

\* no trigger: no image
GateNoTrigger ==
    /\ ~user_asks_for_image(user_text)
    /\ ~character_promises_image(reply.reply_it)
    /\ ~followup_requests_image(reply)
    /\ GateReturn(ImageDecision(FALSE, "no_trigger"))

NextGate == GateUserRequest \/ GateCharacterPromise \/ GateFollowUp \/ GateNoTrigger

SpecGate == InitGate /\ [][NextGate]_vars

(***************************************************************************)
(* lora_mapping.py: the catalog and pick_loras.  A weight is written in    *)
(* hundredths: 40 stands for 0.40.                                         *)
(***************************************************************************)
LoRAEntry(n, w, c, k, ok) ==
    [name |-> n, weight |-> w, category |-> c, keywords |-> k, sdxl_ok |-> ok]

Categories == {"adapter", "utility", "realism", "style", "slider", "morph", "nsfw"}

\* CATEGORY_LIMITS as shipped, and a table that allows one entry a category.
ShippedLimits == [c \in Categories |-> IF c = "utility" THEN 2 ELSE 1]

SingleLimits == [c \in Categories |-> 1]

MAX_TOTAL_LORAS == 3

FALLBACKS == <<<<"add_detail", 20>>, <<"flux_realism_lora", 30>>, <<"detailed_notrigger", 25>>>>

\* Five entries of LORAS in catalog order, each with some of its keywords.
ShippedSlice ==
    <<LoRAEntry("add_detail", 40, "utility", <<<<"detail">>, <<"details">>, <<"sharp">>>>, FALSE),
      LoRAEntry("Hand v2", 70, "utility", <<<<"hand">>>>, TRUE),
      LoRAEntry("detailed_notrigger", 45, "utility", <<<<"detail">>, <<"details">>, <<"sharp">>>>, TRUE),
      LoRAEntry("KrekkovLycoXLV2", 50, "realism", <<<<"detail">>, <<"realism">>, <<"sharp">>>>, TRUE),
      LoRAEntry("Pony Realism Slider", 50, "slider", <<<<"pony">>, <<"realism">>>>, TRUE)>>

Without(s, i) == [j \in 1..(Len(s) - 1) |-> IF j < i THEN s[j] ELSE s[j + 1]]

\* The catalogs of the model: the slice, the slice less one entry, and a
\* catalog none of the FALLBACKS names is in.
Catalogs ==
    {ShippedSlice} \cup {Without(ShippedSlice, i) : i \in 1..Len(ShippedSlice)}
        \cup {<<ShippedSlice[2], ShippedSlice[4]>>}

\* ", ".join(parts)
RECURSIVE JoinComma(_)
JoinComma(parts) ==
    IF parts = <<>> THEN <<>>
    ELSE IF Len(parts) = 1 THEN parts[1]
    ELSE parts[1] \o <<",", " ">> \o JoinComma(Tail(parts))

\* " ".join(parts)
RECURSIVE JoinSp(_)
JoinSp(parts) ==
    IF parts = <<>> THEN <<>>
    ELSE IF Len(parts) = 1 THEN parts[1]
    ELSE parts[1] \o <<" ">> \o JoinSp(Tail(parts))

\* .replace("-", " ").replace("_", " ").replace("/", " ")
Unpunct(t) == IF t \in {"-", "_", "/"} THEN " " ELSE t

text_corpus(tg, vis) ==
    LET t == Lower(JoinSp(tg \o (IF vis # <<>> THEN <<vis>> ELSE <<>>)))
    IN  [i \in 1..Len(t) |-> Unpunct(t[i])]

score_entry(text, entry) ==
    Cardinality({i \in 1..Len(entry.keywords) :
        entry.keywords[i] # <<>> /\ Occurs(Lower(entry.keywords[i]), text)})

\* for e in LORAS: if e.name == name: return e     (<<>> stands for None)
find_entry_by_name(name) ==
    IF \E i \in 1..Len(LORAS) : LORAS[i].name = name
    THEN <<LORAS[MinOf({i \in 1..Len(LORAS) : LORAS[i].name = name})]>>
    ELSE <<>>

\* CATEGORY_LIMITS.get(e.category, 1)
CategoryCap(c) == IF c \in DOMAIN CATEGORY_LIMITS THEN CATEGORY_LIMITS[c] ELSE 1

\* used_per_cat.get(e.category, 0)
UsedIn(c) == IF c \in DOMAIN used_per_cat THEN used_per_cat[c] ELSE 0

\* used_per_cat[e.category] = used_per_cat.get(e.category, 0) + 1
UsedPlus(c) ==
    [d \in DOMAIN used_per_cat \cup {c} |-> IF d = c THEN UsedIn(c) + 1 ELSE used_per_cat[d]]

\* The sort key (_score_entry(text, e), -0.0001 * e.weight) of a is greater
\* than that of b.
KeyGreater(text, a, b) ==
    \/ score_entry(text, a) > score_entry(text, b)
    \/ score_entry(text, a) = score_entry(text, b) /\ (0 - a.weight) > (0 - b.weight)

\* sorted(s, key=..., reverse=True): greatest key first, equal keys in the
\* order they have in s.
SortedByKey(text, s) ==
    LET Before(j, i) == KeyGreater(text, s[j], s[i]) \/ (~KeyGreater(text, s[i], s[j]) /\ j < i)
        Rank(i) == Cardinality({j \in 1..Len(s) : j # i /\ Before(j, i)}) + 1
    IN  [r \in 1..Len(s) |-> s[CHOOSE i \in 1..Len(s) : Rank(i) = r]]

\* (e for e in LORAS if (e.sdxl_ok or not sdxl))
Compatible(e) == e.sdxl_ok \/ ~sdxl

Text == text_corpus(pick_tags, pick_visual)

\* The arguments of the model.
SelWords == {"detail", "Details", "hand", "realism"}

SelTags == SeqsUpTo({<<w>> : w \in SelWords}, MaxSelTags)

SelVisuals == {<<>>, <<"sharp">>}

beforeSel ==
    <<content, stage, obj, reply, tagsIn, idx, out, seen, calls, firstOut, user_text, decision>>

InitPick ==
    /\ content = <<>>
    /\ pc = "pick"
    /\ stage = 0
    /\ obj = PyNone
    /\ reply = NoReply
    /\ NormIdle
    /\ calls = 1
    /\ firstOut = <<>>
    /\ GateIdle
    /\ LORAS \in Catalogs
    /\ CATEGORY_LIMITS \in {ShippedLimits, SingleLimits}
    /\ pick_tags \in SelTags
    /\ pick_visual \in SelVisuals
    /\ sdxl \in BOOLEAN
    /\ max_total \in 0..MaxCap
    /\ candidates = <<>>
    /\ ci = 0
    /\ fi = 0
    /\ picked = <<>>
    /\ used_per_cat = <<>>
    /\ runs = 1
    /\ firstPicked = <<>>
    /\ AfterSelIdle

\* A call that finds used_per_cat as the call before left it.
PickStart_StaleCounts ==
    /\ pc = "pick"
    /\ candidates' = SortedByKey(Text, SelectSeq(LORAS, Compatible))
    /\ picked' = <<>>
    /\ used_per_cat' = IF used_per_cat = <<>> THEN [k \in DOMAIN CATEGORY_LIMITS |-> 0] ELSE used_per_cat
    /\ ci' = 1
    /\ pc' = "scored"
    /\ UNCHANGED <<beforeSel, selIn, fi, runs, firstPicked, afterSel>>

\* lines 298-305: the corpus, the sorted candidates, picked, used_per_cat
PickStart ==
    /\ pc = "pick"
    /\ candidates' = SortedByKey(Text, SelectSeq(LORAS, Compatible))
    /\ picked' = <<>>
    /\ used_per_cat' = [k \in DOMAIN CATEGORY_LIMITS |-> 0]
    /\ ci' = 1
    /\ pc' = "scored"
    /\ UNCHANGED <<beforeSel, selIn, fi, runs, firstPicked, afterSel>>

InScored == pc = "scored" /\ ci <= Len(candidates)

\* The scored loop is over: by break at the cap, or at the end of candidates.
\* if not picked: enter the fallback loop.
ScoredDone ==
    /\ pc = "scored"
    /\ ci > Len(candidates) \/ Len(picked) >= max_total
    /\ pc' = IF picked = <<>> THEN "fallback" ELSE "return"
    /\ fi' = 1
    /\ UNCHANGED <<beforeSel, selIn, candidates, ci, picked, used_per_cat, runs, firstPicked, afterSel>>

ScoredContinue ==
    /\ ci' = ci + 1
    /\ UNCHANGED <<beforeSel, selIn, candidates, fi, picked, used_per_cat, pc, runs, firstPicked, afterSel>>

\* if _score_entry(text, e) == 0: continue
ScoredSkipZero ==
    /\ InScored
    /\ Len(picked) < max_total
    /\ score_entry(Text, candidates[ci]) = 0
    /\ ScoredContinue

\* if used_per_cat.get(e.category, 0) >= cap: continue
ScoredSkipQuota ==
    /\ InScored
    /\ Len(picked) < max_total
    /\ score_entry(Text, candidates[ci]) # 0
    /\ UsedIn(candidates[ci].category) >= CategoryCap(candidates[ci].category)
    /\ ScoredContinue

\* An append that does not look at the category count.
ScoredAccept_NoQuota ==
    /\ InScored
    /\ Len(picked) < max_total
    /\ score_entry(Text, candidates[ci]) # 0
    /\ picked' = Append(picked, candidates[ci])
    /\ used_per_cat' = UsedPlus(candidates[ci].category)
    /\ ci' = ci + 1
    /\ UNCHANGED <<beforeSel, selIn, candidates, fi, pc, runs, firstPicked, afterSel>>

\* picked.append(e); used_per_cat[e.category] += 1
ScoredAccept ==
    /\ InScored
    /\ Len(picked) < max_total
    /\ score_entry(Text, candidates[ci]) # 0
    /\ UsedIn(candidates[ci].category) < CategoryCap(candidates[ci].category)
    /\ picked' = Append(picked, candidates[ci])
    /\ used_per_cat' = UsedPlus(candidates[ci].category)
    /\ ci' = ci + 1
    /\ UNCHANGED <<beforeSel, selIn, candidates, fi, pc, runs, firstPicked, afterSel>>

InFallback == pc = "fallback" /\ fi <= Len(FALLBACKS)

\* The fallback loop is over: by break at the cap, or at the end of FALLBACKS.
FallbackDone ==
    /\ pc = "fallback"
    /\ fi > Len(FALLBACKS) \/ Len(picked) >= max_total
    /\ pc' = "return"
    /\ UNCHANGED <<beforeSel, selIn, candidates, ci, fi, picked, used_per_cat, runs, firstPicked, afterSel>>

FallbackContinue ==
    /\ fi' = fi + 1
    /\ UNCHANGED <<beforeSel, selIn, candidates, ci, picked, used_per_cat, pc, runs, firstPicked, afterSel>>

\* A fallback walk that ends at a name the catalog does not have.
FallbackMissing_Stops ==
    /\ InFallback
    /\ Len(picked) < max_total
    /\ find_entry_by_name(FALLBACKS[fi][1]) = <<>>
    /\ pc' = "return"
    /\ UNCHANGED <<beforeSel, selIn, candidates, ci, fi, picked, used_per_cat, runs, firstPicked,
                   afterSel>>

\* e = _find_entry_by_name(name); if not e: continue
FallbackMissing ==
    /\ InFallback
    /\ Len(picked) < max_total
    /\ find_entry_by_name(FALLBACKS[fi][1]) = <<>>
    /\ FallbackContinue

\* if used_per_cat.get(e.category, 0) >= cap: continue
FallbackSkipQuota ==
    /\ InFallback
    /\ Len(picked) < max_total
    /\ find_entry_by_name(FALLBACKS[fi][1]) # <<>>
    /\ LET e == find_entry_by_name(FALLBACKS[fi][1])[1]
       IN  UsedIn(e.category) >= CategoryCap(e.category)
    /\ FallbackContinue

\* A fallback append that keeps the weight of the catalog.
FallbackAccept_CatalogWeight ==
    /\ InFallback
    /\ Len(picked) < max_total
    /\ find_entry_by_name(FALLBACKS[fi][1]) # <<>>
    /\ LET e == find_entry_by_name(FALLBACKS[fi][1])[1]
       IN  /\ UsedIn(e.category) < CategoryCap(e.category)
           /\ picked' = Append(picked, e)
           /\ used_per_cat' = UsedPlus(e.category)
    /\ fi' = fi + 1
    /\ UNCHANGED <<beforeSel, selIn, candidates, ci, pc, runs, firstPicked, afterSel>>

\* A fallback append that sets the forced weight on the catalog entry itself.
FallbackAccept_InPlace ==
    /\ InFallback
    /\ Len(picked) < max_total
    /\ find_entry_by_name(FALLBACKS[fi][1]) # <<>>
    /\ LET e == find_entry_by_name(FALLBACKS[fi][1])[1]
           forced == LoRAEntry(e.name, FALLBACKS[fi][2], e.category, e.keywords, e.sdxl_ok)
       IN  /\ UsedIn(e.category) < CategoryCap(e.category)
           /\ picked' = Append(picked, forced)
           /\ LORAS' = [i \in 1..Len(LORAS) |-> IF LORAS[i] = e THEN forced ELSE LORAS[i]]
           /\ used_per_cat' = UsedPlus(e.category)
    /\ fi' = fi + 1
    /\ UNCHANGED <<beforeSel, CATEGORY_LIMITS, pick_tags, pick_visual, sdxl, max_total,
                   candidates, ci, pc, runs, firstPicked, afterSel>>

\* picked.append(LoRAEntry(name=e.name, weight=w, ...)); used_per_cat += 1
FallbackAccept ==
    /\ InFallback
    /\ Len(picked) < max_total
    /\ find_entry_by_name(FALLBACKS[fi][1]) # <<>>
    /\ LET e == find_entry_by_name(FALLBACKS[fi][1])[1]
       IN  /\ UsedIn(e.category) < CategoryCap(e.category)
           /\ picked' = Append(picked, LoRAEntry(e.name, FALLBACKS[fi][2], e.category, e.keywords, e.sdxl_ok))
           /\ used_per_cat' = UsedPlus(e.category)
    /\ fi' = fi + 1
    /\ UNCHANGED <<beforeSel, selIn, candidates, ci, pc, runs, firstPicked, afterSel>>

\* A return that cuts one entry too many.
PickReturn_SliceShort ==
    /\ pc = "return"
    /\ picked' = SubSeq(picked, 1, MinOf({Len(picked), max_total - 1}))
    /\ pc' = "picked"
    /\ UNCHANGED <<beforeSel, selIn, candidates, ci, fi, used_per_cat, runs, firstPicked, afterSel>>

\* return picked[:max_total]
PickReturn ==
    /\ pc = "return"
    /\ picked' = SubSeq(picked, 1, MinOf({Len(picked), max_total}))
    /\ pc' = "picked"
    /\ UNCHANGED <<beforeSel, selIn, candidates, ci, fi, used_per_cat, runs, firstPicked, afterSel>>

NextPick ==
    \/ PickStart \/ ScoredDone \/ ScoredSkipZero \/ ScoredSkipQuota \/ ScoredAccept
    \/ FallbackDone \/ FallbackMissing \/ FallbackSkipQuota \/ FallbackAccept \/ PickReturn

SpecPick == InitPick /\ [][NextPick]_vars

\* pick_loras called a second time with the same arguments.
PickAgain ==
    /\ pc = "picked"
    /\ runs = 1
    /\ runs' = 2
    /\ firstPicked' = picked
    /\ pc' = "pick"
    /\ UNCHANGED <<beforeSel, selIn, candidates, ci, fi, picked, used_per_cat, afterSel>>

NextPickTwice == NextPick \/ PickAgain

SpecPickTwice == InitPick /\ [][NextPickTwice]_vars

\* entry.triggers[0] of the catalog entry of that name (_display_trigger,
\* lines 281-282: every entry of the catalog has triggers)
display_trigger(e) ==
    CASE e.name = "add_detail" -> <<"add", " ", "detail">>
      [] e.name = "Hand v2" -> <<"hands", " ", "detail">>
      [] e.name = "detailed_notrigger" -> <<"detailed", " ", "helper">>
      [] e.name = "KrekkovLycoXLV2" -> <<"krekkov", " ", "xl">>
      [] e.name = "Pony Realism Slider" -> <<"pony", " ", "realism", " ", "slider">>

Digit(d) == <<"0", "1", "2", "3", "4", "5", "6", "7", "8", "9">>[d + 1]

\* f"{weight:.2f}" of a weight in hundredths
TwoDecimals(w) == <<Digit(w \div 100), ".", Digit((w \div 10) % 10), Digit(w % 10)>>

\* f"<lora:{e.name}:{e.weight:.2f}>"
lora_token(e) == <<"<lora:", e.name, ":">> \o TwoDecimals(e.weight) \o <<">">>

\* lines 343-351
lora_prompt_suffix(entries, include_triggers) ==
    IF entries = <<>> THEN <<>>
    ELSE LET tokens == [i \in 1..Len(entries) |-> lora_token(entries[i])]
             triggers == [i \in 1..Len(entries) |-> display_trigger(entries[i])]
             parts == IF include_triggers THEN tokens \o triggers ELSE tokens
         IN  <<",", " ">> \o JoinComma(parts)

\* lora_prompt_suffix called on the list pick_loras returned
Suffix ==
    /\ pc = "picked"
    /\ \E include_triggers \in BOOLEAN :
          suffix' = lora_prompt_suffix(picked, include_triggers)
    /\ pc' = "suffixed"
    /\ UNCHANGED <<beforeSel, selIn, candidates, ci, fi, picked, used_per_cat, runs, firstPicked,
                   character, positive_parts, prompts, selected, afterCalls>>

\* select_loras, lines 369-370: the call was pick_loras(tags, visual="",
\* sdxl=False, max_total=3); the pairs (name, weight) are returned
SelectReturn ==
    /\ pc = "picked"
    /\ pick_visual = <<>>
    /\ ~sdxl
    /\ max_total = 3
    /\ selected' = [i \in 1..Len(picked) |-> <<picked[i].name, picked[i].weight>>]
    /\ pc' = "selected"
    /\ UNCHANGED <<beforeSel, selIn, candidates, ci, fi, picked, used_per_cat, runs, firstPicked,
                   character, positive_parts, prompts, suffix, afterCalls>>

NextCalls == NextPickTwice \/ Suffix \/ SelectReturn

\* The calls are made with the default cap, which is also the cap
\* select_loras passes.
InitCalls == InitPick /\ max_total = MAX_TOTAL_LORAS

SpecCalls == InitCalls /\ [][NextCalls]_vars

\* pick_loras on requests made of a word no keyword is in and a word some
\* keywords are in.
MissWords == {"zzz", "detail"}

MissTags == SeqsUpTo({<<w>> : w \in MissWords}, MaxSelTags)

MissVisuals == {<<>>, <<"zzz">>}

InitMiss ==
    /\ content = <<>>
    /\ pc = "pick"
    /\ stage = 0
    /\ obj = PyNone
    /\ reply = NoReply
    /\ NormIdle
    /\ calls = 1
    /\ firstOut = <<>>
    /\ GateIdle
    /\ LORAS \in Catalogs
    /\ CATEGORY_LIMITS \in {ShippedLimits, SingleLimits}
    /\ pick_tags \in MissTags
    /\ pick_visual \in MissVisuals
    /\ sdxl \in BOOLEAN
    /\ max_total \in 0..MaxCap
    /\ candidates = <<>>
    /\ ci = 0
    /\ fi = 0
    /\ picked = <<>>
    /\ used_per_cat = <<>>
    /\ runs = 1
    /\ firstPicked = <<>>
    /\ AfterSelIdle

SpecMiss == InitMiss /\ [][NextPick]_vars

(***************************************************************************)
(* app/images/engine.py: build_prompts.                                    *)
(***************************************************************************)
QUALITY_TAGS ==
    <<"score_9", "score_8_up", "score_7_up", "score_6_up", "score_5_up", "score_4_up",
      "masterpiece", "photorealistic", "award-winning photo">>

QUALITY_CHAIN == JoinComma([i \in 1..Len(QUALITY_TAGS) |-> <<QUALITY_TAGS[i]>>])

\* text.replace(old, new): leftmost occurrences, none overlapping
RECURSIVE Replace(_, _, _)
Replace(text, old, new) ==
    IF Len(text) < Len(old) THEN text
    ELSE IF SubSeq(text, 1, Len(old)) = old
         THEN new \o Replace(SubSeq(text, Len(old) + 1, Len(text)), old, new)
         ELSE <<Head(text)>> \o Replace(Tail(text), old, new)

\* for qt in QUALITY_TAGS, from the i-th on: the three replacements
RECURSIVE StripTagsFrom(_, _)
StripTagsFrom(text, i) ==
    IF i > Len(QUALITY_TAGS) THEN text
    ELSE LET qt == QUALITY_TAGS[i]
             t1 == Replace(text, <<qt, ",">>, <<>>)
             t2 == Replace(t1, <<",", qt>>, <<>>)
             t3 == Replace(t2, <<qt>>, <<>>)
         IN  StripTagsFrom(t3, i + 1)

\* while ", ," in text: text = text.replace(", ,", ",")
RECURSIVE DropDoubleCommas(_)
DropDoubleCommas(text) ==
    IF \E i \in 1..(Len(text) - 2) : SubSeq(text, i, i + 2) = <<",", " ", ",">>
    THEN DropDoubleCommas(Replace(text, <<",", " ", ",">>, <<",">>))
    ELSE text

\* " ".join(text.split())
SplitJoin(text) ==
    LET s == Strip(text)
        keep == {i \in 1..Len(s) : NotWs(s[i]) \/ NotWs(s[i - 1])}
        order == SelectSeq([i \in 1..Len(s) |-> i], LAMBDA i : i \in keep)
    IN  [n \in 1..Len(order) |-> IF IsWs(s[order[n]]) THEN " " ELSE s[order[n]]]

strip_quality_from_base(base) ==
    IF base = <<>> THEN <<>>
    ELSE SplitJoin(Replace(DropDoubleCommas(StripTagsFrom(base, 1)), <<" ", ",">>, <<",">>))

\* _normalize_tags as a function: the loop from element i on.
RECURSIVE NormalizeFrom(_, _, _, _)
NormalizeFrom(tg, i, acc, keys) ==
    IF i > Len(tg) THEN acc
    ELSE IF tg[i] = <<>> \/ Strip(tg[i]) = <<>> THEN NormalizeFrom(tg, i + 1, acc, keys)
    ELSE IF NormKey(Strip(tg[i])) \in keys THEN NormalizeFrom(tg, i + 1, acc, keys)
    ELSE NormalizeFrom(tg, i + 1, Append(acc, Strip(tg[i])), keys \cup {NormKey(Strip(tg[i]))})

normalize_tags(tg) == NormalizeFrom(tg, 1, <<>>, {})

\* collect_lora_tokens_from_config is None: lora_mapping does not define it
\* and the import at lines 15-18 fails.
collect_lora_tokens(tg, vis) == <<>>

\* if x: parts.append(x)
AppendIf(parts, x) == IF x # <<>> THEN Append(parts, x) ELSE parts

\* join(p for p in positive_parts if p)
NonEmpty(p) == p # <<>>

\* The characters and replies of the model.
BaseAlphabet == {"score_9", "masterpiece", ",", " ", "1girl"}

Characters ==
    {[known |-> FALSE, base_prompt |-> <<>>, negative_prompt |-> <<>>]}
    \cup {[known |-> TRUE, base_prompt |-> b, negative_prompt |-> <<" ", "Ciao">>] :
            b \in SeqsUpTo(BaseAlphabet, MaxBase)}

PromptReplies ==
    {[reply_it |-> <<"Ciao">>, tags_en |-> t, visual_en |-> v, follow_up_action |-> PyNone] :
        t \in {<<>>, <<<<"a">>>>, <<<<" ", "a">>, <<"A">>, <<"b">>>>, <<<<"masterpiece">>>>},
        v \in {<<>>, <<" ">>, <<" ", "Ciao">>}}

beforePrompt ==
    <<content, stage, obj, reply, calls, firstOut, user_text, decision,
      selIn, candidates, ci, fi, picked, used_per_cat, runs, firstPicked>>

InitPrompt ==
    /\ content = <<>>
    /\ pc = "build"
    /\ stage = 0
    /\ obj = PyNone
    /\ reply \in PromptReplies
    /\ NormIdle
    /\ calls = 1
    /\ firstOut = <<>>
    /\ GateIdle
    /\ SelIdle
    /\ character \in Characters
    /\ positive_parts = <<>>
    /\ prompts = [positive |-> <<>>, negative |-> <<>>]
    /\ AfterPromptIdle

\* if character_name not in self.characters: raise ValueError
BuildUnknown ==
    /\ pc = "build"
    /\ ~character.known
    /\ pc' = "build_raised"
    /\ UNCHANGED <<beforePrompt, tagsIn, idx, out, seen, character, positive_parts, prompts,
                   afterPrompt>>

\* The visual description appended before the tags.
PositiveParts_VisualFirst(base_clean, tg, vis, lora_tokens) ==
    AppendIf(AppendIf(AppendIf(<<>>, QUALITY_CHAIN), base_clean), vis) \o tg \o lora_tokens

\* The segments of lines 166-177 in their order.
PositiveParts(base_clean, tg, vis, lora_tokens) ==
    AppendIf(AppendIf(AppendIf(<<>>, QUALITY_CHAIN), base_clean) \o tg, vis) \o lora_tokens

\* lines 157-190
BuildPrompts ==
    /\ pc = "build"
    /\ character.known
    /\ LET base_clean == strip_quality_from_base(character.base_prompt)
           tg == normalize_tags(reply.tags_en)
           vis == Strip(reply.visual_en)
           lora_tokens == collect_lora_tokens(tg, vis)
           parts == PositiveParts(base_clean, tg, vis, lora_tokens)
       IN  /\ positive_parts' = parts
           /\ prompts' = [positive |-> JoinComma(SelectSeq(parts, NonEmpty)),
                          negative |-> Strip(character.negative_prompt)]
    /\ pc' = "built"
    /\ UNCHANGED <<beforePrompt, tagsIn, idx, out, seen, character, afterPrompt>>

NextPrompt == BuildUnknown \/ BuildPrompts

SpecPrompt == InitPrompt /\ [][NextPrompt]_vars

(***************************************************************************)
(* One image turn: decide_image_request and build_prompts as               *)
(* MainWindow._on_llm_finished calls them (main_window.py 318-326), next   *)
(* to pick_loras applied to the tags and the visual text of the same reply *)
(* with its default arguments.                                             *)
(***************************************************************************)
\* decide_image_request as a function, lines 91-105
decide_image_request(ut, r) ==
    IF user_asks_for_image(ut) THEN ImageDecision(TRUE, "user_request")
    ELSE IF character_promises_image(r.reply_it) THEN ImageDecision(TRUE, "character_promise")
    ELSE IF followup_requests_image(r) THEN ImageDecision(TRUE, "follow_up_action")
    ELSE ImageDecision(FALSE, "no_trigger")

\* build_prompts as a function, lines 157-190
build_prompts(ch, r) ==
    LET base_clean == strip_quality_from_base(ch.base_prompt)
        tg == normalize_tags(r.tags_en)
        vis == Strip(r.visual_en)
        parts == PositiveParts(base_clean, tg, vis, collect_lora_tokens(tg, vis))
    IN  [parts |-> parts,
         positive |-> JoinComma(SelectSeq(parts, NonEmpty)),
         negative |-> Strip(ch.negative_prompt)]

Luna == [known |-> TRUE, base_prompt |-> <<"1girl">>, negative_prompt |-> <<" ", "Ciao">>]

TurnFollowUps == {PyNone, PyStr(<<"request_image">>)}

InitTurn ==
    /\ content = <<>>
    /\ pc = "pick"
    /\ stage = 0
    /\ obj = PyNone
    /\ NormIdle
    /\ calls = 1
    /\ firstOut = <<>>
    /\ GateIdle
    /\ LORAS \in Catalogs
    /\ CATEGORY_LIMITS \in {ShippedLimits, SingleLimits}
    /\ pick_tags \in SelTags
    /\ pick_visual \in SelVisuals
    /\ sdxl = TRUE
    /\ max_total = MAX_TOTAL_LORAS
    /\ \E f \in TurnFollowUps :
          reply = [reply_it |-> <<"Ciao">>, tags_en |-> pick_tags, visual_en |-> pick_visual,
                   follow_up_action |-> f]
    /\ candidates = <<>>
    /\ ci = 0
    /\ fi = 0
    /\ picked = <<>>
    /\ used_per_cat = <<>>
    /\ runs = 1
    /\ firstPicked = <<>>
    /\ character = Luna
    /\ positive_parts = <<>>
    /\ prompts = [positive |-> <<>>, negative |-> <<>>]
    /\ AfterPromptIdle

turnFrame ==
    <<content, stage, obj, reply, tagsIn, idx, out, seen, calls, firstOut, user_text,
      selIn, candidates, ci, fi, picked, used_per_cat, runs, firstPicked, character,
      afterPrompt>>

\* main_window.py 318-328: the gate does not trigger, no prompt is built
TurnNoImage ==
    /\ pc = "picked"
    /\ decision' = decide_image_request(user_text, reply)
    /\ ~decision'.will_generate
    /\ pc' = "no_image"
    /\ UNCHANGED <<turnFrame, positive_parts, prompts>>

\* main_window.py 318-326: the gate triggers and build_prompts is called
TurnImage ==
    /\ pc = "picked"
    /\ decision' = decide_image_request(user_text, reply)
    /\ decision'.will_generate
    /\ LET p == build_prompts(character, reply)
       IN  /\ positive_parts' = p.parts
           /\ prompts' = [positive |-> p.positive, negative |-> p.negative]
    /\ pc' = "built"
    /\ UNCHANGED turnFrame

NextTurn == NextPick \/ TurnNoImage \/ TurnImage

SpecTurn == InitTurn /\ [][NextTurn]_vars

(***************************************************************************)
(* app/ui/main_window.py: the window, its two workers and the signals      *)
(* between them.  running holds the workers whose run() has not ended,     *)
(* signals the emitted signals the UI thread has not handled yet, pc the   *)
(* place of the UI thread: in its event loop or in a warning dialog.       *)
(* The turn a worker, a bubble or a message belongs to, the count of       *)
(* ignored sends and the count of signals a worker emitted are kept for    *)
(* the properties.                                                         *)
(***************************************************************************)
MaxTurns == 2

MaxIgnored == 1

\* LLMReply(reply_it="[Mi scuso, ma ho avuto un problema tecnico. Riprova.]")
APOLOGY ==
    [reply_it |-> <<"[Mi", " ", "scuso,", " ", "ma", " ", "ho", " ", "avuto", " ", "un", " ",
                    "problema", " ", "tecnico.", " ", "Riprova.]">>,
     tags_en |-> <<>>, visual_en |-> <<>>, follow_up_action |-> PyNone]

\* What the user types, and what generate_reply returns when the request
\* and the parsing succeed.
WindowTexts == {<<"Ciao">>, <<" ", "foto">>, <<" ">>}

WindowReplies ==
    {[reply_it |-> <<"Ciao">>, tags_en |-> <<>>, visual_en |-> <<>>, follow_up_action |-> PyNone],
     [reply_it |-> <<"Ciao">>, tags_en |-> <<<<"a">>>>, visual_en |-> <<"Ciao">>,
      follow_up_action |-> PyStr(<<"request_image">>)]}

Worker(kind, id, text, t) == [kind |-> kind, id |-> id, user_text |-> text, turn |-> t]

Signal(name, w, r, path) ==
    [name |-> name, id |-> w.id, user_text |-> w.user_text, turn |-> w.turn,
     reply |-> r, image_path |-> path]

ChatMessage(role, call) == [role |-> role, call |-> call]

Bubble(who, t) == [who |-> who, turn |-> t, image |-> 0]

beforeWindow ==
    <<content, stage, obj, tagsIn, idx, out, seen, calls, firstOut, user_text,
      selIn, candidates, ci, fi, picked, used_per_cat, runs, firstPicked, character,
      suffix, selected>>

\* MainWindow.__init__, lines 110-118
InitWindow ==
    /\ content = <<>>
    /\ pc = "events"
    /\ stage = 0
    /\ obj = PyNone
    /\ reply = NoReply
    /\ NormIdle
    /\ calls = 1
    /\ firstOut = <<>>
    /\ GateIdle
    /\ SelIdle
    /\ character \in {Luna, [known |-> FALSE, base_prompt |-> <<>>, negative_prompt |-> <<>>]}
    /\ positive_parts = <<>>
    /\ prompts = [positive |-> <<>>, negative |-> <<>>]
    /\ suffix = <<>>
    /\ selected = <<>>
    /\ AfterCallsIdle

\* _set_busy / _set_idle, lines 233-255
set_busy == busy' = TRUE

set_idle == busy' = FALSE

\* _start_llm_worker / _start_sd_worker: a new worker on a new thread
Start(kind, text, t) ==
    /\ running' = Append(running, Worker(kind, Len(emits) + 1, text, t))
    /\ emits' = Append(emits, [kind |-> kind, n |-> 0])

\* if self._busy: return
SendWhileBusy ==
    /\ busy
    /\ ignored < MaxIgnored
    /\ ignored' = ignored + 1
    /\ UNCHANGED <<pc, reply, decision, positive_parts, prompts, beforeWindow, busy,
                   last_user_text, running, signals, bubbles, history, turn, emits>>

\* text = self.txt_input.text().strip(); if not text: return
SendBlank ==
    /\ pc = "events"
    /\ ~busy
    /\ ignored < MaxIgnored
    /\ \E text \in WindowTexts : Strip(text) = <<>>
    /\ ignored' = ignored + 1
    /\ UNCHANGED <<pc, reply, decision, positive_parts, prompts, beforeWindow, busy,
                   last_user_text, running, signals, bubbles, history, turn, emits>>

\* A send handler without the test of _busy.
OnSendClicked_NoGuard ==
    /\ pc = "events"
    /\ turn < MaxTurns
    /\ \E text \in WindowTexts :
          /\ Strip(text) # <<>>
          /\ last_user_text' = Strip(text)
          /\ bubbles' = Append(bubbles, Bubble("Tu", turn + 1))
          /\ Start("llm", Strip(text), turn + 1)
    /\ turn' = turn + 1
    /\ set_busy
    /\ UNCHANGED <<pc, reply, decision, positive_parts, prompts, beforeWindow,
                   signals, history, ignored>>

\* _on_send_clicked, lines 259-274, and _start_llm_worker, lines 278-299
OnSendClicked ==
    /\ pc = "events"
    /\ ~busy
    /\ turn < MaxTurns
    /\ \E text \in WindowTexts :
          /\ Strip(text) # <<>>
          /\ last_user_text' = Strip(text)
          /\ bubbles' = Append(bubbles, Bubble("Tu", turn + 1))
          /\ Start("llm", Strip(text), turn + 1)
    /\ turn' = turn + 1
    /\ set_busy
    /\ UNCHANGED <<pc, reply, decision, positive_parts, prompts, beforeWindow,
                   signals, history, ignored>>

\* The worker at position i of running ends its run() with one signal.
Emit(i, sig) ==
    /\ signals' = Append(signals, sig)
    /\ running' = [j \in 1..(Len(running) - 1) |-> IF j < i THEN running[j] ELSE running[j + 1]]
    /\ emits' = [emits EXCEPT ![running[i].id].n = @ + 1]

workerFrame ==
    <<pc, reply, decision, positive_parts, prompts, beforeWindow, busy, last_user_text,
      bubbles, turn, ignored>>

\* LLMWorker.run with process_user_message returning: the user message and
\* the character message are appended, finished is emitted.
LlmRunReplies(i, r) ==
    /\ running[i].kind = "llm"
    /\ history' = history \o <<ChatMessage("user", running[i].turn),
                               ChatMessage("character", running[i].turn)>>
    /\ Emit(i, Signal("llm_finished", running[i], r, <<>>))
    /\ UNCHANGED workerFrame

\* generate_reply parses the content of the model into a reply
LlmRunParsed == \E i \in 1..Len(running) : \E r \in WindowReplies : LlmRunReplies(i, r)

\* generate_reply, lines 235-246: the request fails, the apology is the reply
LlmRunApology == \E i \in 1..Len(running) : LlmRunReplies(i, APOLOGY)

\* generate_reply raises after the user message was appended (the content
\* decodes to a value that is no object, or reply_it is no string):
\* process_user_message does not return, error is emitted.
LlmRunRaises ==
    \E i \in 1..Len(running) :
        /\ running[i].kind = "llm"
        /\ history' = Append(history, ChatMessage("user", running[i].turn))
        /\ Emit(i, Signal("llm_error", running[i], NoReply, <<>>))
        /\ UNCHANGED workerFrame

\* SDWorker.run: txt2img wrote the image, finished is emitted with its path
SdRunImage ==
    \E i \in 1..Len(running) :
        /\ running[i].kind = "sd"
        /\ Emit(i, Signal("sd_finished", running[i], NoReply, <<"sd_1.png">>))
        /\ UNCHANGED <<workerFrame, history>>

\* txt2img returns a result with an error text: error is emitted
SdRunErrorResult ==
    \E i \in 1..Len(running) :
        /\ running[i].kind = "sd"
        /\ Emit(i, Signal("sd_error", running[i], NoReply, <<>>))
        /\ UNCHANGED <<workerFrame, history>>

\* txt2img returns image_path None with an error text that is empty
\* (str(e) of an exception without message): finished is emitted
SdRunEmptyError ==
    \E i \in 1..Len(running) :
        /\ running[i].kind = "sd"
        /\ Emit(i, Signal("sd_finished", running[i], NoReply, <<>>))
        /\ UNCHANGED <<workerFrame, history>>

\* txt2img raises: error is emitted
SdRunRaises ==
    \E i \in 1..Len(running) :
        /\ running[i].kind = "sd"
        /\ Emit(i, Signal("sd_error", running[i], NoReply, <<>>))
        /\ UNCHANGED <<workerFrame, history>>

\* The UI thread takes the oldest signal from its queue.
Handle(name) ==
    /\ pc = "events"
    /\ signals # <<>>
    /\ Head(signals).name = name
    /\ signals' = Tail(signals)

\* _on_llm_finished, lines 301-316: the bubble of the character, the gate
LlmFinished ==
    /\ Handle("llm_finished")
    /\ reply' = Head(signals).reply
    /\ bubbles' = Append(bubbles, Bubble("Luna", Head(signals).turn))
    /\ decision' = decide_image_request(last_user_text, Head(signals).reply)

\* lines 327-328: no image, the window is idle again
OnLlmFinishedNoImage ==
    /\ LlmFinished
    /\ ~decision'.will_generate
    /\ set_idle
    /\ UNCHANGED <<pc, positive_parts, prompts, beforeWindow, last_user_text, running,
                   history, turn, ignored, emits>>

\* lines 324-326 and 337-362: build_prompts returns and the SD worker starts
\* with the prompts (the prompts themselves are those of SpecPrompt; the
\* window hands them on unread)
OnLlmFinishedImage ==
    /\ LlmFinished
    /\ decision'.will_generate
    /\ character.known
    /\ set_busy
    /\ Start("sd", <<>>, Head(signals).turn)
    /\ UNCHANGED <<pc, positive_parts, prompts, beforeWindow, last_user_text, history, turn,
                   ignored>>

\* line 325: build_prompts raises ValueError and the slot ends there
OnLlmFinishedBuildRaises ==
    /\ LlmFinished
    /\ decision'.will_generate
    /\ ~character.known
    /\ UNCHANGED <<pc, positive_parts, prompts, beforeWindow, busy, last_user_text, running,
                   history, turn, ignored, emits>>

\* _on_llm_error, line 332: the warning dialog opens
OnLlmError ==
    /\ Handle("llm_error")
    /\ pc' = "warning_llm"
    /\ UNCHANGED <<reply, decision, positive_parts, prompts, beforeWindow, busy, last_user_text,
                   running, bubbles, history, turn, ignored, emits>>

\* line 333: the dialog is dismissed, _set_idle
DismissLlmWarning ==
    /\ pc = "warning_llm"
    /\ pc' = "events"
    /\ set_idle
    /\ UNCHANGED <<reply, decision, positive_parts, prompts, beforeWindow, last_user_text,
                   running, signals, bubbles, history, turn, ignored, emits>>

\* self._last_character_bubble.set_image(image_path), or a bubble of the
\* image alone when there is no character bubble (chat_view.py 217-224)
attach_image_to_last_character_bubble(t) ==
    LET mine == {i \in 1..Len(bubbles) : bubbles[i].who # "Tu"}
    IN  IF mine = {} THEN Append(bubbles, [who |-> "PG", turn |-> t, image |-> t])
        ELSE [bubbles EXCEPT ![MaxOf(mine)].image = t]

\* _on_sd_finished, lines 376-380: the image is attached, _set_idle
OnSdFinishedImage ==
    /\ Handle("sd_finished")
    /\ Head(signals).image_path # <<>>
    /\ bubbles' = attach_image_to_last_character_bubble(Head(signals).turn)
    /\ set_idle
    /\ UNCHANGED <<pc, reply, decision, positive_parts, prompts, beforeWindow, last_user_text,
                   running, history, turn, ignored, emits>>

\* _on_sd_finished, lines 366-372: no image path, the warning dialog opens
OnSdFinishedEmpty ==
    /\ Handle("sd_finished")
    /\ Head(signals).image_path = <<>>
    /\ pc' = "warning_sd"
    /\ UNCHANGED <<reply, decision, positive_parts, prompts, beforeWindow, busy, last_user_text,
                   running, bubbles, history, turn, ignored, emits>>

\* _on_sd_error, line 384: the warning dialog opens
OnSdError ==
    /\ Handle("sd_error")
    /\ pc' = "warning_sd"
    /\ UNCHANGED <<reply, decision, positive_parts, prompts, beforeWindow, busy, last_user_text,
                   running, bubbles, history, turn, ignored, emits>>

\* lines 373 and 385: the dialog is dismissed, _set_idle
DismissSdWarning ==
    /\ pc = "warning_sd"
    /\ pc' = "events"
    /\ set_idle
    /\ UNCHANGED <<reply, decision, positive_parts, prompts, beforeWindow, last_user_text,
                   running, signals, bubbles, history, turn, ignored, emits>>

WorkerRuns ==
    \/ LlmRunParsed \/ LlmRunApology \/ LlmRunRaises
    \/ SdRunImage \/ SdRunErrorResult \/ SdRunEmptyError \/ SdRunRaises

Slots ==
    \/ OnLlmFinishedNoImage \/ OnLlmFinishedImage \/ OnLlmFinishedBuildRaises \/ OnLlmError
    \/ OnSdFinishedImage \/ OnSdFinishedEmpty \/ OnSdError

Dismissals == DismissLlmWarning \/ DismissSdWarning

NextWindow ==
    \/ SendWhileBusy \/ SendBlank \/ OnSendClicked
    \/ LlmRunParsed \/ LlmRunApology \/ LlmRunRaises
    \/ SdRunImage \/ SdRunErrorResult \/ SdRunEmptyError \/ SdRunRaises
    \/ OnLlmFinishedNoImage \/ OnLlmFinishedImage \/ OnLlmFinishedBuildRaises \/ OnLlmError
    \/ OnSdFinishedImage \/ OnSdFinishedEmpty \/ OnSdError
    \/ DismissLlmWarning \/ DismissSdWarning

SpecWindow == InitWindow /\ [][NextWindow]_vars

\* Every started worker ends its run, the event loop delivers every emitted
\* signal, and every warning dialog is dismissed.
SpecWindowFair ==
    /\ InitWindow
    /\ [][NextWindow]_vars
    /\ WF_vars(WorkerRuns)
    /\ WF_vars(Slots)
    /\ WF_vars(Dismissals)

(***************************************************************************)
(* Vocabulary of the properties.                                           *)
(***************************************************************************)
Finished == pc \in {"returned", "raised"}

Parsed == pc \in {"extract", "returned", "raised"}

NotLabelNorWs(t) == t \notin LabelTokens /\ t # WS

\* The text with its whitespace tokens removed.
Squeeze(s) == SelectSeq(s, NotWs)

\* The field labels of a labelled block: dialogue, tags, visual description.
FieldLabels == {"reply_it:", "tags_en:", "visual_en:"}

HasLabel(c, label) == LabelPositions(c, label) # {}

\* The text between the first occurrence of a label and the next label token
\* (or the end of the input), trimmed.
FieldAfter(c, label) ==
    LET i == MinOf(LabelPositions(c, label))
        nxt == {m \in (i + 1)..Len(c) : c[m] \in LabelTokens}
    IN  IF nxt = {} THEN Strip(SubSeq(c, i + 1, Len(c)))
        ELSE Strip(SubSeq(c, i + 1, MinOf(nxt) - 1))

\* The tag strings a list of decoded items stands for.
ItemTexts(items) == [i \in 1..Len(items) |-> StrOf(items[i])]

\* C1: for every raw model output, turning it into a reply ends by
\* returning a reply record, never in an exception.
C1_ParserTotal == pc # "raised"

\* C2: the dialogue text of the returned reply is empty only if the raw input
\* was empty or held nothing but recognized labels (and whitespace).
C2_DialogueNonEmpty ==
    (pc = "returned" /\ reply.reply_it = <<>>)
        => \A i \in 1..Len(content) : content[i] \in LabelTokens \cup {WS}

\* A well-formed record, plain prose, and the labelled blocks that carry a
\* literal tag list and a visual text.
WellFormedRecord == <<"{", "kvFull", "}">>

IsPlainProse(c) == Find(c, "Ciao") # 0 /\ \A i \in 1..Len(c) : c[i] \in {"Ciao", "42", WS}

FullLabeledBlocks ==
    {d \o <<"tags_en:", " ", "[", "qs", "]", " ", "visual_en:", " ", "Ciao", " ">> \o f :
        d \in DialogueParts, f \in FollowUpParts}

LowestStage(c) ==
    IF Stage1Result(c).ok THEN 1
    ELSE IF Stage2Result(c).ok THEN 2
    ELSE IF Stage3Result(c).ok THEN 3
    ELSE 4

Wrappings(c) ==
    {w \in Noise \X Noise :
        w[1] \o WellFormedRecord \o w[2] = c /\ Squeeze(w[1] \o w[2]) # <<>>}

\* Leading noise without "{" and trailing noise without "}".
BraceFree(w) == Find(w[1], "{") = 0 /\ Find(w[2], "}") = 0

\* The reply for R alone.
ReplyAlone == ExtractReply(Stage1Result(WellFormedRecord).val)

\* C4 as claimed: for every noise, the reply returned for the wrapped record
\* comes from stage 2 and has the same dialogue text, tags, visual
\* description and follow_up_action as the reply for R alone.
C4_NoiseWrapAnyNoise ==
    (pc = "returned" /\ Wrappings(content) # {})
        => stage = 2 /\ reply = ReplyAlone

\* C4 as amended: the same, for leading noise without "{" and trailing noise
\* without "}", when the wrapped text is not itself a JSON document.
C4_NoiseWrapBraceFree ==
    (Finished /\ ~JsonLoads(content).ok /\ \E w \in Wrappings(content) : BraceFree(w))
        => pc = "returned" /\ stage = 2 /\ reply = ReplyAlone

C4_Witness ==
    /\ pc = "returned"
    /\ stage = 2
    /\ content = <<"Ciao">> \o WellFormedRecord \o <<"]">>
    /\ reply = ReplyAlone

\* C5: labelled-block recovery succeeds exactly when one of the three field
\* labels occurs: an input the first two stages reject ends in stage 3 if it
\* has a label and in stage 4 only if it has none.
C5_LabelMeansStage3 ==
    (Finished /\ stage \in {3, 4})
        => (stage = 3 <=> \E l \in FieldLabels : HasLabel(content, l))

\* C6: in the stage-3 result for a block that opens with the dialogue label,
\* each field is the text between its own label and the next label (or the
\* end), label excluded.
C6_FieldBetweenLabels ==
    (pc = "returned" /\ stage = 3 /\ HasLabel(content, "reply_it:"))
        => /\ reply.reply_it = FieldAfter(content, "reply_it:")
           /\ HasLabel(content, "visual_en:")
                => reply.visual_en = FieldAfter(content, "visual_en:")
           /\ (HasLabel(content, "tags_en:") /\ JsonLoads(FieldAfter(content, "tags_en:")).ok)
                => reply.tags_en = ItemTexts(JsonLoads(FieldAfter(content, "tags_en:")).val.v)

\* C7: when the text after the tags label is not a literal list that decodes,
\* it is split into tokens: a non-empty tags value gives a non-empty tag list
\* and the input stays a stage-3 result.
C7_TagsSplitFallback ==
    (Finished /\ stage \in {3, 4} /\ HasLabel(content, "tags_en:"))
        => LET tv == FieldAfter(content, "tags_en:")
           IN  (tv # <<>> /\ ~JsonLoads(tv).ok)
                   => pc = "returned" /\ stage = 3 /\ reply.tags_en # <<>>

\* C8: the tags of every returned reply are trimmed, non-empty and free of
\* case-insensitive duplicates.
C8_ReplyTagsNormalized ==
    pc = "returned"
        => /\ \A i \in 1..Len(reply.tags_en) :
                reply.tags_en[i] # <<>> /\ Strip(reply.tags_en[i]) = reply.tags_en[i]
           /\ \A i, j \in 1..Len(reply.tags_en) :
                i # j => Lower(reply.tags_en[i]) # Lower(reply.tags_en[j])

\* C9: a stage-4 result has no tags, no visual description, no
\* follow_up_action, and its dialogue text is the raw input less the label
\* tokens (compared up to whitespace).
C9_FallbackKeepsContent ==
    (pc = "returned" /\ stage = 4)
        => /\ reply.tags_en = <<>>
           /\ reply.visual_en = <<>>
           /\ reply.follow_up_action.k = "none"
           /\ Squeeze(reply.reply_it) = SelectSeq(content, NotLabelNorWs)

\* The inputs that survive normalization, by position: not blank and no
\* case-insensitive repeat of an earlier input.
FirstOccurrence(tags, i) ==
    /\ Strip(tags[i]) # <<>>
    /\ \A j \in 1..(i - 1) : Lower(Strip(tags[j])) # Lower(Strip(tags[i]))

Survivors(tags) ==
    LET first == SelectSeq([i \in 1..Len(tags) |-> i], LAMBDA i : FirstOccurrence(tags, i))
    IN  [n \in 1..Len(first) |-> Strip(tags[first[n]])]

\* C10: _normalize_tags returns, in order of first occurrence, the trimmed
\* form of every input that is not blank and not a case-insensitive repeat
\* of an earlier one: no element is empty or untrimmed, no two are equal
\* ignoring case, and the empty list gives the empty list.
C10_NormalizeTags ==
    pc = "norm_done"
        => /\ out = Survivors(tagsIn)
           /\ \A i \in 1..Len(out) : out[i] # <<>> /\ Strip(out[i]) = out[i]
           /\ \A i, j \in 1..Len(out) : i # j => Lower(out[i]) # Lower(out[j])
           /\ \A i \in 1..Len(tagsIn) :
                Strip(tagsIn[i]) # <<>>
                    => \E n \in 1..Len(out) : Lower(out[n]) = Lower(Strip(tagsIn[i]))
           /\ tagsIn = <<>> => out = <<>>

C10_Witness ==
    /\ pc = "norm_done"
    /\ tagsIn = <<(<<" ", "a">>), (<<" ">>), (<<"A">>)>>
    /\ out = <<(<<"a">>)>>

\* C11: normalizing an already normalized list changes nothing: the second
\* call of _normalize_tags, given what the first call returned, returns the
\* same list element for element.
C11_NormalizeIdempotent ==
    pc = "norm_done" /\ calls = 2 => out = firstOut

\* The second call has returned a list of two tags.
C11_Witness == pc = "norm_done" /\ calls = 2 /\ Len(firstOut) = 2 /\ out = firstOut

\* The signals of the gate, read off the user text and the reply.
TriggerPhrases ==
    {<<"immagine">>, <<"immagini">>, <<"foto">>, <<"fotografia">>, <<"picture">>, <<"image">>,
     <<"pic">>, <<"photo">>, <<"scatta">>, <<"mostrami">>, <<"fammi", " ", "vedere">>,
     <<"mandami">>, <<"mandane">>}

PromisePhrases ==
    {<<"te", " ", "la", " ", "mando">>, <<"te", " ", "la", " ", "invio">>,
     <<"ti", " ", "mando", " ", "una", " ", "foto">>, <<"ti", " ", "mando", " ", "la", " ", "foto">>,
     <<"ecco", " ", "una", " ", "foto">>, <<"te", " ", "la", " ", "mostro">>,
     <<"guarda", " ", "questa">>, <<"ecco", " ", "a", " ", "te">>, <<"ecco", " ", "per", " ", "te">>,
     <<"ti", " ", "invio">>}

UserRequest == \E p \in TriggerPhrases : Occurs(p, Lower(user_text))

CharacterPromise == \E p \in PromisePhrases : Occurs(p, Lower(reply.reply_it))

FollowUpSignal ==
    /\ reply.follow_up_action # PyNone
    /\ Lower(Strip(reply.follow_up_action.v)) = <<"request_image">>

\* A visual description together with at least two tags.
VisualRichness == reply.visual_en # <<>> /\ Len(reply.tags_en) >= 2

Decided == pc = "gate_done"

\* C12: the gate generates exactly when the user asks for an image, the
\* character promises one, or the follow-up action, trimmed and lower-cased,
\* is request_image; tags and a visual description alone never trigger.
C12_AnyOneSignal ==
    Decided =>
        /\ decision.will_generate <=> (UserRequest \/ CharacterPromise \/ FollowUpSignal)
        /\ (VisualRichness /\ ~UserRequest /\ ~CharacterPromise /\ ~FollowUpSignal)
                => ~decision.will_generate

\* The follow-up action alone, written in capitals between blanks, triggers.
C12_Witness ==
    /\ Decided
    /\ decision.will_generate
    /\ ~UserRequest /\ ~CharacterPromise
    /\ reply.follow_up_action = PyStr(<<" ", "REQUEST_IMAGE", " ">>)

\* C13 as stated: the reason is the first true signal in the order UserRequest,
\* CharacterPromise, FollowUpSignal, VisualRichness, NoTrigger.
C13_ReasonPriorityWithRichness ==
    Decided =>
        decision.reason =
            IF UserRequest THEN "user_request"
            ELSE IF CharacterPromise THEN "character_promise"
            ELSE IF FollowUpSignal THEN "follow_up_action"
            ELSE IF VisualRichness THEN "visual_richness"
            ELSE "no_trigger"

\* C13, amended: the reason is the first true signal in the order UserRequest,
\* CharacterPromise, FollowUpSignal, and no_trigger when none of the three is
\* true; visual richness is never reported as a reason.
C13_ReasonPriority ==
    Decided =>
        /\ decision.reason =
              IF UserRequest THEN "user_request"
              ELSE IF CharacterPromise THEN "character_promise"
              ELSE IF FollowUpSignal THEN "follow_up_action"
              ELSE "no_trigger"
        /\ decision.reason # "visual_richness"

\* The user asks, the character promises and the follow-up asks: user_request.
C13_Witness ==
    /\ Decided
    /\ UserRequest /\ CharacterPromise /\ FollowUpSignal
    /\ decision.reason = "user_request"

\* The signals a quorum counts, and the ones decide_image_request tests.
QuorumSignals ==
    {s \in {"UserRequest", "CharacterPromise", "VisualRichness"} :
        \/ s = "UserRequest" /\ UserRequest
        \/ s = "CharacterPromise" /\ CharacterPromise
        \/ s = "VisualRichness" /\ VisualRichness}

TestedSignals ==
    {s \in {"UserRequest", "CharacterPromise", "FollowUpSignal"} :
        \/ s = "UserRequest" /\ UserRequest
        \/ s = "CharacterPromise" /\ CharacterPromise
        \/ s = "FollowUpSignal" /\ FollowUpSignal}

\* C14 as stated, threshold 2: the gate generates exactly when at least two of
\* UserRequest, CharacterPromise, VisualRichness are true, and UserRequest
\* with VisualRichness reports user_request.
C14_QuorumOfTwo ==
    Decided =>
        /\ decision.will_generate <=> Cardinality(QuorumSignals) >= 2
        /\ QuorumSignals = {"UserRequest", "VisualRichness"} => decision.reason = "user_request"

\* C14, amended: decide_image_request has no quorum mode; its threshold is one
\* and it counts UserRequest, CharacterPromise and FollowUpSignal, never
\* VisualRichness.  Only VisualRichness gives will_generate false, only
\* UserRequest gives true, and UserRequest with VisualRichness gives true
\* with the reason user_request.
C14_ThresholdOne ==
    Decided =>
        /\ decision.will_generate <=> Cardinality(TestedSignals) >= 1
        /\ (QuorumSignals = {"VisualRichness"} /\ ~FollowUpSignal) => ~decision.will_generate
        /\ QuorumSignals = {"UserRequest"} => decision.will_generate
        /\ QuorumSignals = {"UserRequest", "VisualRichness"}
                => decision.will_generate /\ decision.reason = "user_request"

\* The user asks and the reply is visually rich, nothing else: user_request.
C14_Witness ==
    /\ Decided
    /\ QuorumSignals = {"UserRequest", "VisualRichness"}
    /\ ~FollowUpSignal
    /\ decision = ImageDecision(TRUE, "user_request")

\* Vocabulary of the selector properties.
Picked == pc = "picked"

CountIn(s, c) == Cardinality({i \in 1..Len(s) : s[i].category = c})

Scores(e) == score_entry(Text, e) > 0

\* The catalog entries the request admits.
Admitted == {i \in 1..Len(LORAS) : LORAS[i].sdxl_ok \/ ~sdxl}

AllZero == \A i \in Admitted : ~Scores(LORAS[i])

\* The fallback list walked from position i on, acc being accepted so far.
RECURSIVE FallbackWalk(_, _)
FallbackWalk(i, acc) ==
    IF i > Len(FALLBACKS) \/ Len(acc) >= max_total THEN acc
    ELSE LET named == {n \in 1..Len(LORAS) : LORAS[n].name = FALLBACKS[i][1]}
         IN  IF named = {} THEN FallbackWalk(i + 1, acc)
             ELSE LET e == LORAS[MinOf(named)]
                  IN  IF CountIn(acc, e.category) >= CATEGORY_LIMITS[e.category]
                      THEN FallbackWalk(i + 1, acc)
                      ELSE FallbackWalk(i + 1, Append(acc, [e EXCEPT !.weight = FALLBACKS[i][2]]))

\* C15: the list pick_loras returns is no longer than the global cap and
\* holds, of every category, no more entries than the category's quota, on
\* the scored path and on the fallback path.
C15_SelectorBounds ==
    Picked =>
        /\ Len(picked) <= max_total
        /\ \A c \in Categories : CountIn(picked, c) <= CATEGORY_LIMITS[c]

\* A scored result at the cap and at the utility quota, with a scoring
\* entry left out.
C15_Witness ==
    /\ Picked
    /\ ~AllZero
    /\ Len(picked) = max_total
    /\ CountIn(picked, "utility") = CATEGORY_LIMITS["utility"]
    /\ Cardinality({i \in Admitted : Scores(LORAS[i])}) > Len(picked)

\* C16: with a global cap of at least one, if an entry the request admits
\* scores above zero, the returned list is not empty.
C16_SelectorNonEmpty ==
    (Picked /\ max_total >= 1 /\ ~AllZero) => picked # <<>>

\* A cap of one, several scoring entries, one returned.
C16_Witness ==
    /\ Picked
    /\ max_total = 1
    /\ Cardinality({i \in Admitted : Scores(LORAS[i])}) >= 2
    /\ Len(picked) = 1
    /\ Scores(picked[1])

\* C17: when every candidate scores zero the result is the walk of the
\* fallback list, in its order, filtered by the quotas and the cap, every
\* entry with its override weight; when some candidate scores, every
\* returned entry is a catalog entry with its catalog weight.
C17_SelectorFallback ==
    Picked =>
        /\ AllZero => picked = FallbackWalk(1, <<>>)
        /\ ~AllZero => \A i \in 1..Len(picked) : \E n \in Admitted : picked[i] = LORAS[n]

\* No candidate scores and two fallback entries come back with the
\* override weights.
C17_Witness ==
    /\ Picked
    /\ AllZero
    /\ Len(picked) = 2
    /\ picked[1].name = "add_detail" /\ picked[1].weight = 20
    /\ picked[2].name = "detailed_notrigger" /\ picked[2].weight = 25

\* C18: the candidates are considered by score descending and, among
\* scoring candidates of equal score, the higher catalog weight first; the
\* returned list keeps the order.
C18_HigherWeightFirst ==
    pc \in {"scored", "fallback", "return", "picked"} =>
        /\ \A i, j \in 1..Len(candidates) :
              i < j =>
                 /\ score_entry(Text, candidates[i]) >= score_entry(Text, candidates[j])
                 /\ (Scores(candidates[i])
                        /\ score_entry(Text, candidates[i]) = score_entry(Text, candidates[j]))
                        => candidates[i].weight >= candidates[j].weight
        /\ (Picked /\ ~AllZero) =>
              \A i, j \in 1..Len(picked) :
                  (i < j /\ score_entry(Text, picked[i]) = score_entry(Text, picked[j]))
                      => picked[i].weight >= picked[j].weight

\* C19: a second call of pick_loras with the same arguments and the same
\* catalog returns the same list: same entries, same weights, same order.
C19_SelectorDeterministic ==
    (Picked /\ runs = 2) => picked = firstPicked

\* Both calls returned two entries that tie on score and on weight.
C19_Witness ==
    /\ Picked
    /\ runs = 2
    /\ Len(picked) = 2
    /\ picked = firstPicked
    /\ picked[1].weight = picked[2].weight
    /\ score_entry(Text, picked[1]) = score_entry(Text, picked[2])
    /\ Scores(picked[1])

\* Vocabulary of the prompt properties.
Built == pc = "built"

QualityHeader == QUALITY_CHAIN

\* The five segments in the order of the claim, the empty ones left out.
Segments ==
    LET cleaned == strip_quality_from_base(character.base_prompt)
        trimmed == Strip(reply.visual_en)
    IN  <<QualityHeader>>
        \o (IF cleaned = <<>> THEN <<>> ELSE <<cleaned>>)
        \o Survivors(reply.tags_en)
        \o (IF trimmed = <<>> THEN <<>> ELSE <<trimmed>>)
        \o collect_lora_tokens(Survivors(reply.tags_en), trimmed)

Times(token, text) == Cardinality({i \in 1..Len(text) : text[i] = token})

QualityTokens == {QUALITY_TAGS[i] : i \in 1..Len(QUALITY_TAGS)}

\* C21: every quality tag that the base description holds verbatim occurs
\* exactly once in the final positive prompt, and the cleaned base
\* description holds no quality tag.
C21_QualityOnce ==
    Built =>
        /\ \A q \in QualityTokens :
              Times(q, character.base_prompt) > 0 => Times(q, prompts.positive) = 1
        /\ \A q \in QualityTokens :
              Times(q, strip_quality_from_base(character.base_prompt)) = 0

\* The part of C21 about the base description alone: the cleaned base holds
\* no quality tag, and a reply without quality tags leaves every quality tag
\* once in the prompt.
C21_CleanedBase ==
    Built =>
        /\ \A q \in QualityTokens :
              Times(q, strip_quality_from_base(character.base_prompt)) = 0
        /\ (\A i \in 1..Len(reply.tags_en) : \A q \in QualityTokens :
                Times(q, reply.tags_en[i]) = 0)
              => \A q \in QualityTokens : Times(q, prompts.positive) = 1

\* The segment of the positive prompt at position j stands after the visual
\* description of the reply (after every segment when there is none).
AfterVisual(j) ==
    LET vis == Strip(reply.visual_en)
    IN  vis # <<>> => \E k \in 1..(j - 1) : positive_parts[k] = vis

\* C22: whenever the gate triggers, the positive prompt holds, after the
\* visual description, the reference token (identifier and applied weight)
\* of every modifier the selector picks for the tags and the visual
\* description of the reply.
C22_ModifierTokens ==
    (Built /\ decision.will_generate) =>
        \A i \in 1..Len(picked) :
            \E j \in 1..Len(positive_parts) :
                positive_parts[j] = lora_token(picked[i]) /\ AfterVisual(j)

\* C23: no call of pick_loras, select_loras or lora_prompt_suffix changes the
\* catalog or the quota table, and the forced weight of a fallback is in
\* the returned entry only: every catalog entry keeps the weight it was
\* shipped with.
C23_CatalogFrame ==
    [][/\ LORAS' = LORAS
       /\ CATEGORY_LIMITS' = CATEGORY_LIMITS
       /\ \A i \in 1..Len(LORAS') : \E j \in 1..Len(ShippedSlice) : LORAS'[i] = ShippedSlice[j]]_vars

\* A second call has returned the fallback add_detail with its forced weight
\* while the catalog entry holds 0.40, and the suffix was built from it.
C23_Witness ==
    /\ pc = "suffixed"
    /\ runs = 2
    /\ Len(picked) >= 1
    /\ picked[1].name = "add_detail"
    /\ picked[1].weight = 20
    /\ find_entry_by_name("add_detail") # <<>>
    /\ find_entry_by_name("add_detail")[1].weight = 40
    /\ SubSeq(suffix, 1, 4) = <<",", " ", "<lora:", "add_detail">>

\* C24: every entry pick_loras returns is compatible with the request: it is
\* flagged SDXL-compatible or the request is not for SDXL, whether the
\* entry came by the scored path or by the fallback path.
C24_CompatibleOnly ==
    Picked => \A i \in 1..Len(picked) : Compatible(picked[i])

\* The same on the scored path alone.
C24_ScoredCompatible ==
    (Picked /\ ~AllZero) => \A i \in 1..Len(picked) : Compatible(picked[i])

\* The fallback walk stands at a name that is not in the catalog.
AtMissingFallback ==
    /\ pc = "fallback"
    /\ fi <= Len(FALLBACKS)
    /\ Len(picked) < max_total
    /\ \A i \in 1..Len(LORAS) : LORAS[i].name # FALLBACKS[fi][1]

NoKeywordMatches == \A i \in 1..Len(LORAS) : ~Scores(LORAS[i])

\* C25: a fallback name the catalog does not have is skipped, taking nothing
\* from the cap or from a quota, and the walk goes on with the next name;
\* with the shipped catalog, fallback list and quotas and a cap of three, a
\* corpus that matches no keyword gives add_detail at 0.20 and
\* detailed_notrigger at 0.25, in that order and nothing else.
C25_MissingFallbackSkipped ==
    /\ [][AtMissingFallback =>
            /\ picked' = picked
            /\ used_per_cat' = used_per_cat
            /\ pc' = "fallback"
            /\ fi' = fi + 1]_vars
    /\ []((Picked /\ LORAS = ShippedSlice /\ CATEGORY_LIMITS = ShippedLimits
              /\ max_total = MAX_TOTAL_LORAS /\ NoKeywordMatches)
            => picked = <<[ShippedSlice[1] EXCEPT !.weight = 20],
                          [ShippedSlice[3] EXCEPT !.weight = 25]>>)

\* The shipped tables, a request of the word zzz alone, and the walk past
\* flux_realism_lora to the end of the list.
C25_Witness ==
    /\ Picked
    /\ LORAS = ShippedSlice
    /\ CATEGORY_LIMITS = ShippedLimits
    /\ max_total = MAX_TOTAL_LORAS
    /\ pick_tags = <<<<"zzz">>>>
    /\ fi = Len(FALLBACKS) + 1
    /\ Len(picked) = 2
    /\ picked[2].name = "detailed_notrigger"

\* C26: the decision generates if and only if its reason is not no_trigger,
\* and the reason is one of the four the gate knows.
C26_GenerateIffReason ==
    Decided =>
        /\ decision.will_generate <=> decision.reason # "no_trigger"
        /\ decision.reason \in {"user_request", "character_promise", "follow_up_action", "no_trigger"}

\* A reply with tags and a visual description and no signal: no_trigger,
\* nothing generated.
C26_Witness ==
    /\ Decided
    /\ decision = ImageDecision(FALSE, "no_trigger")
    /\ reply.visual_en # <<>>
    /\ reply.tags_en # <<>>

\* Vocabulary of the window properties.
InFlight == Len(running)

\* The step is the UI thread handling the finished signal of an LLM worker.
HandlesLlmFinished ==
    /\ pc = "events"
    /\ signals # <<>>
    /\ Head(signals).name = "llm_finished"
    /\ signals' = Tail(signals)

\* C27: under any interleaving of sends, worker runs and signal handling at
\* most one worker is in flight; a send that arrives while the window is
\* busy starts no worker, adds no bubble and leaves _last_user_text as it
\* is; the gate decides a reply with the text of the send that produced the
\* reply; an image is attached to the character bubble of the turn the
\* image was generated for.
C27_TurnSerialization ==
    /\ [](/\ InFlight <= 1
          /\ \A i \in 1..Len(running) :
                running[i].kind = "llm" => running[i].user_text = last_user_text
          /\ \A i \in 1..Len(bubbles) :
                bubbles[i].image # 0 => bubbles[i].image = bubbles[i].turn /\ bubbles[i].who = "Luna")
    /\ [][/\ (busy /\ ignored' # ignored)
                => UNCHANGED <<running, emits, bubbles, last_user_text, signals, turn>>
          /\ HandlesLlmFinished
                => decision' = decide_image_request(Head(signals).user_text, Head(signals).reply)]_vars

\* Second turn: a send was ignored while the window was busy, the first
\* turn asked with another text, and the image of the second turn is on
\* the character bubble of the second turn.
C27_Witness ==
    /\ ignored = 1
    /\ turn = 2
    /\ Len(bubbles) = 4
    /\ bubbles[2].image = 0
    /\ bubbles[4].image = 2
    /\ last_user_text = <<"foto">>
    /\ ~busy

\* Every worker that was started and is no longer running has emitted one
\* signal, and no worker has emitted two.
OneSignalEach ==
    /\ \A id \in 1..Len(emits) : emits[id].n <= 1
    /\ \A id \in 1..Len(emits) :
          (\A i \in 1..Len(running) : running[i].id # id) => emits[id].n = 1

\* C28: every worker run emits exactly one of its two signals, and, every
\* started worker ending its run and every warning dialog being dismissed,
\* a window that an accepted send made busy is idle again later, whatever
\* the path: no image, an image, an LLM error, a failure of the prompt
\* building, an SD error result, an SD exception.
C28_ReturnToIdle ==
    /\ [] OneSignalEach
    /\ busy ~> ~busy

\* The same with the failure of build_prompts left aside: the image engine
\* knows the character of the session.
C28_ReturnToIdleKnown ==
    /\ [] OneSignalEach
    /\ (busy /\ character.known) ~> ~busy

\* The calls of process_user_message that have ended, by return or by raise.
CallsMade == Cardinality({id \in 1..Len(emits) : emits[id].kind = "llm" /\ emits[id].n = 1})

Alternates(h) ==
    \A i \in 1..Len(h) : h[i].role = (IF i % 2 = 1 THEN "user" ELSE "character")

\* C29: after any sequence of process_user_message calls, the ones whose
\* LLM request fails or whose reply cannot be parsed included, the history
\* alternates user, character, user, character from a user message on, is
\* twice as long as the number of calls made, and every character message
\* follows the user message of its own call.
C29_HistoryShape ==
    /\ Alternates(history)
    /\ Len(history) = 2 * CallsMade
    /\ \A i \in 1..Len(history) :
          history[i].role = "character"
              => i > 1 /\ history[i - 1].role = "user" /\ history[i - 1].call = history[i].call

\* An SD worker is started by the step.
StartsSdWorker ==
    \E i \in 1..Len(running') : running'[i].kind = "sd" /\ running'[i].id > Len(emits)

\* C30: when the LLM request fails the reply is the fixed apology, with no
\* tags, no visual description and no follow-up action, and the slot that
\* handles it starts no SD worker, whatever the text of the user was.
C30_NoImageAfterFailure ==
    /\ [](/\ APOLOGY.tags_en = <<>>
          /\ APOLOGY.visual_en = <<>>
          /\ APOLOGY.follow_up_action = PyNone
          /\ ~character_promises_image(APOLOGY.reply_it))
    /\ [][(HandlesLlmFinished /\ Head(signals).reply = APOLOGY) => ~StartsSdWorker]_vars

\* The same for a user text that does not ask for an image.
C30_NoImageUnlessAsked ==
    [][(HandlesLlmFinished /\ Head(signals).reply = APOLOGY /\ ~user_asks_for_image(last_user_text))
            => ~StartsSdWorker /\ ~busy']_vars

====
